---- MODULE Spec2Model ----
(***************************************************************************)
(* Contact-to-text matching core of Keep-In-Touch: the staged name matcher *)
(* of get-premiere-matches (fuzzyMatch and its helpers), the news scan of  *)
(* get-news-matches (checkArticleForMatches, saveMatchAndBroadcast and the *)
(* news_matches table) and the client-side NewsService.processAllFeeds.    *)
(*                                                                         *)
(* Strings are TLA+ strings; a character is a string of length 1.          *)
(***************************************************************************)
EXTENDS Integers, Sequences, FiniteSets, TLC

VARIABLES
  \* ---- fuzzyMatch(contactFullName, tmdbName, threshold), one call ----
  contactFullName,   \* first argument
  tmdbName,          \* second argument
  threshold,         \* third argument
  fmPc,              \* position in fuzzyMatch: step1, step2, step3, partial, none, returned
  tokenScore,        \* local tokenScore of fuzzyMatch (-1 before step 2 has run)
  fmResult,          \* the returned {isMatch, score, matchType}, NoResult before the return
  fmEvaluated        \* the stages the call has evaluated so far

fmVars == <<contactFullName, tmdbName, threshold, fmPc, tokenScore, fmResult, fmEvaluated>>

VARIABLES
  \* ---- get-news-matches: the table and one invocation of the function ----
  news_matches,      \* the rows of the news_matches table, in insertion order
  scanPc,            \* position of the invocation: idle, fetch, post, contact, save
  scans,             \* invocations started so far
  contacts,          \* the contacts the handler loaded
  lastNameMap,       \* createLastNameMap(contacts)
  pubIdx,            \* processAllPublications: index of the publication (1-based)
  posts,             \* the posts fetched for it
  postIdx,           \* index of the post being checked
  post,              \* checkArticleForMatches: its post
  sources,           \* its sources array
  combinedLower,     \* its combinedLower
  potentials,        \* the contacts its loops visit, in order
  contactIdx,        \* index of the contact being visited
  alreadySaved,      \* its alreadySaved set
  saved,             \* its saved counter
  totalArticles,     \* processAllPublications: totalArticles
  totalMatches,      \* processAllPublications: totalMatches
  match,             \* the NewsMatch last built
  savedLog           \* history: contact ids saveMatchAndBroadcast returned true for, this call

newsVars == <<news_matches, scanPc, scans, contacts, lastNameMap, pubIdx, posts, postIdx, post,
              sources, combinedLower, potentials, contactIdx, alreadySaved, saved,
              totalArticles, totalMatches, match, savedLog>>

VARIABLES
  \* ---- NewsService.processAllFeeds, one session ----
  feedPc,            \* position: idle, rss, rssItems, scrape, scrapeItems, deep, deepCheck,
                     \* done, aborted
  feedContacts,      \* argument contacts
  existingMatches,   \* argument existingMatches
  fullContentLimit,  \* argument fullContentLimit (NoLimit: null)
  aborted,           \* signal.aborted
  sessionMatchKeys,  \* the Set sessionMatchKeys
  onMatchFoundCalls, \* history: the matches onMatchFound was called with, in order
  findings,          \* history: every matchKey the session computed, in order
  allUniqueArticles, \* the Map allUniqueArticles, its values in insertion order
  feedIndex,         \* phase 1: position of the feed in RSS_FEEDS, over all publications
  feedItems,         \* the items of the fetched feed, or the scraped articles
  itemIdx,           \* index of the item being processed
  scrapeIdx,         \* phase 2: index of the publication
  articlesToDeepScan,\* phase 3: articlesToDeepScan
  deepIdx,           \* index of the article being processed
  fullContent        \* the fullContent fetched for it

feedVars == <<feedPc, feedContacts, existingMatches, fullContentLimit, aborted,
              sessionMatchKeys, onMatchFoundCalls, findings, allUniqueArticles, feedIndex,
              feedItems, itemIdx, scrapeIdx, articlesToDeepScan, deepIdx, fullContent>>

\* The page scan of get-premiere-matches (serve handler).
VARIABLES
  pmPc,               \* position of the handler
  pmContacts,         \* what getAllContactsPaginated returned
  firstNameMap,       \* createFirstNameMap(contacts)
  pagePremieres,      \* the premieres of the page, each with its creditsMap entry
  premIdx,            \* position of the loop over pagePremieres
  creditIdx,          \* position of the loop over allCredits
  potentialContacts,  \* Array.from(potentialContactsSet) of the current credit
  candIdx,            \* position of the loop over potentialContacts
  comparisons,        \* the calls of fuzzyMatch made, in order
  pmMatches,          \* matches
  totalComparisons,
  totalSkipped

premVars == <<pmPc, pmContacts, firstNameMap, pagePremieres, premIdx, creditIdx,
              potentialContacts, candIdx, comparisons, pmMatches, totalComparisons,
              totalSkipped>>

\* One ConcurrencyLimiter and the tasks passed to its run method.
VARIABLES
  limiterLimit, \* this.limit, the constructor argument
  running,    \* this.running
  queue,      \* this.queue: the tasks whose execute closure waits
  taskState,  \* per task: "new", "queued", "running", "resolved" or "rejected"
  started     \* the tasks in the order their execute closure was called

limiterVars == <<limiterLimit, running, queue, taskState, started>>

\* the news store (useNewsStore) and the News page's calls in flight
VARIABLES
  isChecking,
  hasPerformedInitialScan,
  matches,
  lastCheck,
  user,
  contactsAvailable,
  checkPc,
  fetchPc

storeVars == <<isChecking, hasPerformedInitialScan, matches, lastCheck, user, contactsAvailable, checkPc, fetchPc>>

\* the Premieres page: one run of checkForPremieres against get-premiere-matches
VARIABLES
  isProcessing,
  premiereError,
  lastChecked,
  runPc,
  currentPage,
  nextPage,
  requestedPages,
  movieTotalPages,
  tvTotalPages

pageVars == <<isProcessing, premiereError, lastChecked, runPc, currentPage, nextPage, requestedPages, movieTotalPages, tvTotalPages>>

\* the contacts table and one request to the Safe Outlook Sync function
VARIABLES
  contactsTable,
  syncPc,
  syncUser,
  processedContacts

syncVars == <<contactsTable, syncPc, syncUser, processedContacts>>

vars == <<fmVars, newsVars, feedVars, premVars, limiterVars, storeVars, pageVars, syncVars>>

\* the variables a machine leaves alone
notFuzzy == <<newsVars, feedVars, premVars, limiterVars, storeVars, pageVars, syncVars>>
notNews == <<fmVars, feedVars, premVars, limiterVars, storeVars, pageVars, syncVars>>
notFeeds == <<fmVars, newsVars, premVars, limiterVars, storeVars, pageVars, syncVars>>
notPremiere == <<fmVars, newsVars, feedVars, limiterVars, storeVars, pageVars, syncVars>>
notLimiter == <<fmVars, newsVars, feedVars, premVars, storeVars, pageVars, syncVars>>
notStore == <<fmVars, newsVars, feedVars, premVars, limiterVars, pageVars, syncVars>>
notPages == <<fmVars, newsVars, feedVars, premVars, limiterVars, storeVars, syncVars>>
notSync == <<fmVars, newsVars, feedVars, premVars, limiterVars, storeVars, pageVars>>

-----------------------------------------------------------------------------
(* JavaScript string primitives, on the ASCII subset the model's texts use. *)

\* The characters of the model in ascending UTF-16 code unit order.
CodeUnitOrder ==
  " !&',-.0123456789;<>ABCDEFGHIJKLMNOPQRSTUVWXYZ_abcdefghijklmnopqrstuvwxyz"

UpperCaseLetters == "ABCDEFGHIJKLMNOPQRSTUVWXYZ"
LowerCaseLetters == "abcdefghijklmnopqrstuvwxyz"

CharAt(s, i) == SubSeq(s, i, i)

IndexIn(alphabet, c) ==
  IF \E i \in 1..Len(alphabet) : CharAt(alphabet, i) = c
  THEN CHOOSE i \in 1..Len(alphabet) : CharAt(alphabet, i) = c
  ELSE 0

\* code unit comparison of two characters, as Array.prototype.sort() and < do
CharLess(c, d) == IndexIn(CodeUnitOrder, c) < IndexIn(CodeUnitOrder, d)

RECURSIVE StrLess(_, _)
StrLess(a, b) ==
  IF Len(b) = 0 THEN FALSE
  ELSE IF Len(a) = 0 THEN TRUE
  ELSE IF Head(a) = Head(b) THEN StrLess(Tail(a), Tail(b))
  ELSE CharLess(Head(a), Head(b))

\* the lowercase letter of each uppercase letter
LowerOf ==
  [c \in {CharAt(UpperCaseLetters, i) : i \in 1..Len(UpperCaseLetters)} |->
     CharAt(LowerCaseLetters, IndexIn(UpperCaseLetters, c))]

LowerChar(c) == IF c \in DOMAIN LowerOf THEN LowerOf[c] ELSE c

\* String.prototype.toLowerCase
RECURSIVE toLowerCase(_)
toLowerCase(s) ==
  IF Len(s) = 0 THEN "" ELSE LowerChar(Head(s)) \o toLowerCase(Tail(s))

\* \s of the regular expressions and the white space trim() removes
IsSpace(c) == c = " "

RECURSIVE trimStart(_)
trimStart(s) ==
  IF Len(s) > 0 /\ IsSpace(Head(s)) THEN trimStart(Tail(s)) ELSE s

RECURSIVE trimEnd(_)
trimEnd(s) ==
  IF Len(s) > 0 /\ IsSpace(CharAt(s, Len(s)))
  THEN trimEnd(SubSeq(s, 1, Len(s) - 1))
  ELSE s

\* String.prototype.trim
trim(s) == trimEnd(trimStart(s))

\* String.prototype.split(/\s+/): a leading or trailing run of white space
\* leaves an empty string at that end, and "" splits into <<"">>.
RECURSIVE splitSpaces(_, _, _)
splitSpaces(s, cur, acc) ==
  IF Len(s) = 0 THEN Append(acc, cur)
  ELSE IF IsSpace(Head(s))
       THEN splitSpaces(trimStart(s), "", Append(acc, cur))
       ELSE splitSpaces(Tail(s), cur \o Head(s), acc)

splitOnWhitespace(s) == splitSpaces(s, "", <<>>)

\* Array.prototype.join
RECURSIVE join(_, _)
join(parts, sep) ==
  IF Len(parts) = 0 THEN ""
  ELSE IF Len(parts) = 1 THEN parts[1]
  ELSE parts[1] \o sep \o join(Tail(parts), sep)

\* Array.prototype.filter(t => t.length > 0)
RECURSIVE filterNonEmpty(_)
filterNonEmpty(parts) ==
  IF Len(parts) = 0 THEN <<>>
  ELSE IF Len(Head(parts)) > 0
       THEN <<Head(parts)>> \o filterNonEmpty(Tail(parts))
       ELSE filterNonEmpty(Tail(parts))

\* Array.prototype.sort() with the default comparator (insertion sort; the
\* result of sorting strings by code units does not depend on the algorithm)
RECURSIVE insertSorted(_, _)
insertSorted(sorted, t) ==
  IF Len(sorted) = 0 THEN <<t>>
  ELSE IF StrLess(t, Head(sorted)) THEN <<t>> \o sorted
  ELSE <<Head(sorted)>> \o insertSorted(Tail(sorted), t)

RECURSIVE sortStrings(_)
sortStrings(parts) ==
  IF Len(parts) = 0 THEN <<>>
  ELSE insertSorted(sortStrings(SubSeq(parts, 1, Len(parts) - 1)), parts[Len(parts)])

\* String.prototype.startsWith
startsWith(s, prefix) ==
  Len(prefix) <= Len(s) /\ SubSeq(s, 1, Len(prefix)) = prefix

\* String.prototype.indexOf, 1-based; 0 when absent (JavaScript: -1)
indexOf(s, needle) ==
  LET hits == {i \in 1..(Len(s) - Len(needle) + 1) :
                 SubSeq(s, i, i + Len(needle) - 1) = needle}
  IN  IF hits = {} THEN 0 ELSE CHOOSE i \in hits : \A k \in hits : i <= k

\* String.prototype.includes
includes(s, needle) == indexOf(s, needle) > 0

Min2(a, b) == IF a <= b THEN a ELSE b
Max2(a, b) == IF a >= b THEN a ELSE b

-----------------------------------------------------------------------------
(* get-premiere-matches: the alias table and the staged matcher.            *)

\* The entries given to new Map(...), in source order.
NAME_VARIATIONS_ENTRIES ==
  <<
    <<"dan", <<"daniel">>>>, <<"danny", <<"daniel">>>>, <<"rob", <<"robert">>>>,
    <<"bob", <<"robert">>>>, <<"bobby", <<"robert">>>>, <<"chris", <<"christopher">>>>,
    <<"mike", <<"michael">>>>, <<"micky", <<"michael">>>>, <<"mickey", <<"michael">>>>,
    <<"bill", <<"william">>>>, <<"billy", <<"william">>>>, <<"will", <<"william">>>>,
    <<"jim", <<"james">>>>, <<"jimmy", <<"james">>>>, <<"joe", <<"joseph">>>>,
    <<"joey", <<"joseph">>>>, <<"tom", <<"thomas">>>>, <<"tommy", <<"thomas">>>>,
    <<"dave", <<"david">>>>, <<"davey", <<"david">>>>, <<"steve", <<"steven", "stephen">>>>,
    <<"stevie", <<"steven", "stephen">>>>, <<"rick", <<"richard">>>>,
    <<"ricky", <<"richard">>>>, <<"dick", <<"richard">>>>, <<"tony", <<"anthony">>>>,
    <<"matt", <<"matthew">>>>, <<"nick", <<"nicholas">>>>, <<"nicky", <<"nicholas">>>>,
    <<"alex", <<"alexander", "alexandra">>>>, <<"sam", <<"samuel", "samantha">>>>,
    <<"ben", <<"benjamin">>>>, <<"benny", <<"benjamin">>>>, <<"andy", <<"andrew">>>>,
    <<"drew", <<"andrew">>>>, <<"kate", <<"katherine", "kathryn">>>>,
    <<"katie", <<"katherine", "kathryn">>>>, <<"kathy", <<"katherine", "kathryn">>>>,
    <<"liz", <<"elizabeth">>>>, <<"beth", <<"elizabeth">>>>, <<"betty", <<"elizabeth">>>>,
    <<"sue", <<"susan">>>>, <<"susie", <<"susan">>>>, <<"jen", <<"jennifer">>>>,
    <<"jenny", <<"jennifer">>>>, <<"jess", <<"jessica">>>>, <<"jessie", <<"jessica">>>>,
    <<"amy", <<"amelia">>>>, <<"mel", <<"melissa", "melanie">>>>, <<"lisa", <<"elizabeth">>>>,
    <<"pat", <<"patricia", "patrick">>>>, <<"patty", <<"patricia">>>>,
    <<"trish", <<"patricia">>>>, <<"nancy", <<"ann", "anne">>>>, <<"peggy", <<"margaret">>>>,
    <<"maggie", <<"margaret">>>>, <<"meg", <<"margaret">>>>, <<"cindy", <<"cynthia">>>>,
    <<"mandy", <<"amanda">>>>, <<"sandy", <<"sandra">>>>, <<"becky", <<"rebecca">>>>,
    <<"debbie", <<"deborah">>>>, <<"deb", <<"deborah">>>>, <<"carol", <<"caroline">>>>,
    <<"carrie", <<"caroline">>>>, <<"terry", <<"teresa", "terence">>>>,
    <<"tim", <<"timothy">>>>, <<"greg", <<"gregory">>>>, <<"ken", <<"kenneth">>>>,
    <<"kenny", <<"kenneth">>>>, <<"ed", <<"edward">>>>, <<"eddie", <<"edward">>>>,
    <<"ted", <<"edward", "theodore">>>>, <<"frank", <<"francis">>>>, <<"ray", <<"raymond">>>>,
    <<"ron", <<"ronald">>>>, <<"ronnie", <<"ronald">>>>, <<"don", <<"donald">>>>,
    <<"donnie", <<"donald">>>>, <<"mark", <<"marcus">>>>,
    <<"max", <<"maxwell", "maximilian">>>>, <<"jake", <<"jacob">>>>,
    <<"jack", <<"john", "jackson">>>>, <<"johnny", <<"john">>>>,
    <<"jon", <<"jonathan", "john">>>>, <<"josh", <<"joshua">>>>, <<"brad", <<"bradley">>>>,
    <<"chad", <<"charles">>>>, <<"chuck", <<"charles">>>>, <<"charlie", <<"charles">>>>,
    <<"rich", <<"richard">>>>, <<"richie", <<"richard">>>>, <<"phil", <<"philip">>>>,
    <<"pete", <<"peter">>>>, <<"paul", <<"paul">>>>, <<"scott", <<"scott">>>>,
    <<"sean", <<"john">>>>, <<"shane", <<"john">>>>, <<"shawn", <<"john">>>>,
    <<"brian", <<"bryan">>>>, <<"bryan", <<"brian">>>>, <<"craig", <<"craig">>>>,
    <<"derek", <<"derrick">>>>, <<"derrick", <<"derek">>>>, <<"eric", <<"erik">>>>,
    <<"erik", <<"eric">>>>, <<"gary", <<"garrett">>>>, <<"jeff", <<"jeffrey">>>>,
    <<"jerry", <<"gerald", "jerome">>>>, <<"larry", <<"lawrence">>>>,
    <<"barry", <<"barrett">>>>, <<"harry", <<"harold", "henry">>>>, <<"henry", <<"harry">>>>,
    <<"harold", <<"harry">>>>, <<"carl", <<"karl">>>>, <<"karl", <<"carl">>>>,
    <<"neal", <<"neil">>>>, <<"neil", <<"neal">>>>, <<"alan", <<"allen">>>>,
    <<"allen", <<"alan">>>>, <<"aaron", <<"aron">>>>, <<"aron", <<"aaron">>>>,
    <<"adam", <<"adam">>>>, <<"adrian", <<"adrian">>>>, <<"albert", <<"al">>>>,
    <<"al", <<"albert", "alan", "allen">>>>, <<"arthur", <<"art">>>>, <<"art", <<"arthur">>>>,
    <<"austin", <<"austin">>>>, <<"blake", <<"blake">>>>, <<"bruce", <<"bruce">>>>,
    <<"calvin", <<"cal">>>>, <<"cal", <<"calvin">>>>, <<"cameron", <<"cam">>>>,
    <<"cam", <<"cameron">>>>, <<"curtis", <<"curt">>>>, <<"curt", <<"curtis">>>>,
    <<"douglas", <<"doug">>>>, <<"doug", <<"douglas">>>>, <<"eugene", <<"gene">>>>,
    <<"gene", <<"eugene">>>>, <<"francis", <<"frank">>>>, <<"frederick", <<"fred">>>>,
    <<"fred", <<"frederick">>>>, <<"gabriel", <<"gabe">>>>, <<"gabe", <<"gabriel">>>>,
    <<"george", <<"george">>>>, <<"gerald", <<"jerry">>>>, <<"gordon", <<"gordon">>>>,
    <<"howard", <<"howie">>>>, <<"howie", <<"howard">>>>, <<"ivan", <<"ivan">>>>,
    <<"jason", <<"jay">>>>, <<"jay", <<"jason", "james">>>>, <<"jerome", <<"jerry">>>>,
    <<"jordan", <<"jordan">>>>, <<"justin", <<"justin">>>>, <<"keith", <<"keith">>>>,
    <<"kevin", <<"kevin">>>>, <<"kyle", <<"kyle">>>>, <<"lance", <<"lance">>>>,
    <<"leon", <<"leon">>>>, <<"louis", <<"lou">>>>, <<"lou", <<"louis">>>>,
    <<"lucas", <<"luke">>>>, <<"luke", <<"lucas">>>>, <<"marcus", <<"mark">>>>,
    <<"martin", <<"marty">>>>, <<"marty", <<"martin">>>>, <<"mason", <<"mason">>>>,
    <<"nathan", <<"nate">>>>, <<"nate", <<"nathan">>>>, <<"norman", <<"norm">>>>,
    <<"norm", <<"norman">>>>, <<"oliver", <<"ollie">>>>, <<"ollie", <<"oliver">>>>,
    <<"oscar", <<"oscar">>>>, <<"owen", <<"owen">>>>, <<"patrick", <<"pat">>>>,
    <<"quinton", <<"quinn">>>>, <<"quinn", <<"quinton">>>>, <<"ralph", <<"ralph">>>>,
    <<"randall", <<"randy">>>>, <<"randy", <<"randall">>>>, <<"roger", <<"roger">>>>,
    <<"russell", <<"russ">>>>, <<"russ", <<"russell">>>>, <<"stanley", <<"stan">>>>,
    <<"stan", <<"stanley">>>>, <<"stuart", <<"stu">>>>, <<"stu", <<"stuart">>>>,
    <<"trevor", <<"trev">>>>, <<"trev", <<"trevor">>>>, <<"victor", <<"vic">>>>,
    <<"vic", <<"victor">>>>, <<"walter", <<"walt">>>>, <<"walt", <<"walter">>>>,
    <<"warren", <<"warren">>>>, <<"wayne", <<"wayne">>>>, <<"wesley", <<"wes">>>>,
    <<"wes", <<"wesley">>>>, <<"zachary", <<"zach">>>>, <<"zach", <<"zachary">>>>,
    <<"daniel", <<"dan", "danny">>>>, <<"robert", <<"rob", "bob", "bobby">>>>,
    <<"christopher", <<"chris">>>>, <<"michael", <<"mike", "micky", "mickey">>>>,
    <<"william", <<"bill", "billy", "will">>>>, <<"james", <<"jim", "jimmy">>>>,
    <<"joseph", <<"joe", "joey">>>>, <<"thomas", <<"tom", "tommy">>>>,
    <<"david", <<"dave", "davey">>>>, <<"steven", <<"steve", "stevie">>>>,
    <<"stephen", <<"steve", "stevie">>>>,
    <<"richard", <<"rick", "ricky", "dick", "rich", "richie">>>>, <<"anthony", <<"tony">>>>,
    <<"matthew", <<"matt">>>>, <<"nicholas", <<"nick", "nicky">>>>,
    <<"alexander", <<"alex">>>>, <<"alexandra", <<"alex">>>>, <<"samuel", <<"sam">>>>,
    <<"samantha", <<"sam">>>>, <<"benjamin", <<"ben", "benny">>>>,
    <<"andrew", <<"andy", "drew">>>>, <<"katherine", <<"kate", "katie", "kathy">>>>,
    <<"kathryn", <<"kate", "katie", "kathy">>>>,
    <<"elizabeth", <<"liz", "beth", "betty", "lisa">>>>, <<"susan", <<"sue", "susie">>>>,
    <<"jennifer", <<"jen", "jenny">>>>, <<"jessica", <<"jess", "jessie">>>>,
    <<"amelia", <<"amy">>>>, <<"melissa", <<"mel">>>>, <<"melanie", <<"mel">>>>,
    <<"patricia", <<"pat", "patty", "trish">>>>, <<"patrick", <<"pat">>>>,
    <<"ann", <<"nancy">>>>, <<"anne", <<"nancy">>>>,
    <<"margaret", <<"peggy", "maggie", "meg">>>>, <<"cynthia", <<"cindy">>>>,
    <<"amanda", <<"mandy">>>>, <<"sandra", <<"sandy">>>>, <<"rebecca", <<"becky">>>>,
    <<"deborah", <<"debbie", "deb">>>>, <<"caroline", <<"carol", "carrie">>>>,
    <<"teresa", <<"terry">>>>, <<"terence", <<"terry">>>>, <<"timothy", <<"tim">>>>,
    <<"gregory", <<"greg">>>>, <<"kenneth", <<"ken", "kenny">>>>,
    <<"edward", <<"ed", "eddie", "ted">>>>, <<"theodore", <<"ted">>>>,
    <<"francis", <<"frank">>>>, <<"raymond", <<"ray">>>>, <<"ronald", <<"ron", "ronnie">>>>,
    <<"donald", <<"don", "donnie">>>>, <<"maxwell", <<"max">>>>, <<"maximilian", <<"max">>>>,
    <<"jacob", <<"jake">>>>, <<"john", <<"jack", "johnny", "jon", "sean", "shane", "shawn">>>>,
    <<"jackson", <<"jack">>>>, <<"jonathan", <<"jon">>>>, <<"joshua", <<"josh">>>>,
    <<"bradley", <<"brad">>>>, <<"charles", <<"chad", "chuck", "charlie">>>>,
    <<"philip", <<"phil">>>>, <<"peter", <<"pete">>>>, <<"jeffrey", <<"jeff">>>>,
    <<"gerald", <<"jerry">>>>, <<"jerome", <<"jerry">>>>, <<"lawrence", <<"larry">>>>,
    <<"barrett", <<"barry">>>>, <<"harold", <<"harry">>>>, <<"henry", <<"harry">>>>,
    <<"garrett", <<"gary">>>>, <<"albert", <<"al">>>>, <<"arthur", <<"art">>>>,
    <<"calvin", <<"cal">>>>, <<"cameron", <<"cam">>>>, <<"curtis", <<"curt">>>>,
    <<"douglas", <<"doug">>>>, <<"eugene", <<"gene">>>>, <<"frederick", <<"fred">>>>,
    <<"gabriel", <<"gabe">>>>, <<"howard", <<"howie">>>>, <<"jason", <<"jay">>>>,
    <<"louis", <<"lou">>>>, <<"lucas", <<"luke">>>>, <<"martin", <<"marty">>>>,
    <<"nathan", <<"nate">>>>, <<"norman", <<"norm">>>>, <<"oliver", <<"ollie">>>>,
    <<"quinton", <<"quinn">>>>, <<"randall", <<"randy">>>>, <<"russell", <<"russ">>>>,
    <<"stanley", <<"stan">>>>, <<"stuart", <<"stu">>>>, <<"trevor", <<"trev">>>>,
    <<"victor", <<"vic">>>>, <<"walter", <<"walt">>>>, <<"wesley", <<"wes">>>>,
    <<"zachary", <<"zach">>>>
  >>

\* new Map(entries): a key given twice keeps the value of its last entry.
NameVariationsKeys ==
  {NAME_VARIATIONS_ENTRIES[i][1] : i \in 1..Len(NAME_VARIATIONS_ENTRIES)}

NAME_VARIATIONS ==
  [k \in NameVariationsKeys |->
     LET at == {i \in 1..Len(NAME_VARIATIONS_ENTRIES) : NAME_VARIATIONS_ENTRIES[i][1] = k}
         last == CHOOSE i \in at : \A j \in at : j <= i
     IN  NAME_VARIATIONS_ENTRIES[last][2]]

normalizeString(str) == trim(toLowerCase(str))

\* getNameVariations: [normalized, ...(NAME_VARIATIONS.get(normalized) || [])]
getNameVariations(name) ==
  LET normalized == normalizeString(name)
      variations == IF normalized \in DOMAIN NAME_VARIATIONS
                    THEN NAME_VARIATIONS[normalized] ELSE <<>>
  IN  <<normalized>> \o variations

\* isPartialNameMatch without the 3-character floor
isPartialNameMatch_noFloor(name1, name2) ==
  LET norm1 == normalizeString(name1)
      norm2 == normalizeString(name2)
  IN  startsWith(norm1, norm2) \/ startsWith(norm2, norm1)

isPartialNameMatch(name1, name2) ==
  LET norm1 == normalizeString(name1)
      norm2 == normalizeString(name2)
  IN  IF Len(norm1) >= 3 /\ Len(norm2) >= 3
      THEN startsWith(norm1, norm2) \/ startsWith(norm2, norm1)
      ELSE FALSE

Min3(a, b, c) == Min2(Min2(a, b), c)

\* Row i of the matrix of calculateRatio, filled from column j on; prev is row
\* i-1 and cur holds matrix[i][0..j-1] (sequences are 1-based: column j is at j+1).
RECURSIVE fillRow(_, _, _, _, _)
fillRow(str1, ch2, prev, cur, j) ==
  IF j > Len(str1) THEN cur
  ELSE LET cost == IF CharAt(str1, j) = ch2 THEN 0 ELSE 1
           cell == Min3(prev[j + 1] + 1, cur[j] + 1, prev[j] + cost)
           next == Append(cur, cell)
       IN  IF Len(next) = j + 1 THEN fillRow(str1, ch2, prev, next, j + 1) ELSE next

\* The last row of the matrix, rows i..len2 computed from row i-1.
RECURSIVE fillMatrix(_, _, _, _)
fillMatrix(str1, str2, prev, i) ==
  IF i > Len(str2) THEN prev
  ELSE LET row == fillRow(str1, CharAt(str2, i), prev, <<i>>, 1)
       IN  IF Len(row) = Len(prev) THEN fillMatrix(str1, str2, row, i + 1) ELSE row

\* distance = matrix[len2][len1]
editDistance(str1, str2) ==
  fillMatrix(str1, str2, [j \in 1..(Len(str1) + 1) |-> j - 1], 1)[Len(str1) + 1]

\* Math.round(x) for x = num / den >= 0: the nearest integer, halves upwards.
\* Exact for the double arithmetic of the code whenever den < 40, which covers
\* every name of the model (at den = 40 the double 23/40*100 falls below 57.5).
roundRatio(num, den) == (2 * num + den) \div (2 * den)

\* calculateRatio dividing by the shorter length instead of the longer one
calculateRatio_shorterLen(str1, str2) ==
  IF str1 = str2 THEN 100
  ELSE IF Len(str1) = 0 THEN (IF Len(str2) = 0 THEN 100 ELSE 0)
  ELSE IF Len(str2) = 0 THEN 0
  ELSE LET distance == editDistance(str1, str2)
           minLen == Min2(Len(str1), Len(str2))
       IN  roundRatio((minLen - distance) * 100, minLen)

calculateRatio(str1, str2) ==
  IF str1 = str2 THEN 100
  ELSE IF Len(str1) = 0 THEN (IF Len(str2) = 0 THEN 100 ELSE 0)
  ELSE IF Len(str2) = 0 THEN 0
  ELSE LET distance == editDistance(str1, str2)
           maxLen == Max2(Len(str1), Len(str2))
       IN  roundRatio((maxLen - distance) * 100, maxLen)

\* tokenSortRatio comparing the tokens in the order they were written
tokenSortRatio_noSort(str1, str2) ==
  LET tokens1 == filterNonEmpty(splitOnWhitespace(normalizeString(str1)))
      tokens2 == filterNonEmpty(splitOnWhitespace(normalizeString(str2)))
  IN  calculateRatio(join(tokens1, " "), join(tokens2, " "))

tokenSortRatio(str1, str2) ==
  LET tokens1 == sortStrings(filterNonEmpty(splitOnWhitespace(normalizeString(str1))))
      tokens2 == sortStrings(filterNonEmpty(splitOnWhitespace(normalizeString(str2))))
  IN  calculateRatio(join(tokens1, " "), join(tokens2, " "))

\* ---- the conditions of fuzzyMatch, in the order the code tests them ----

\* step 1 comparing the names without lowercasing them
exactStage_caseSensitive(contact, tmdb) == trim(contact) = trim(tmdb)

\* Step 1: contactNormalized === tmdbNormalized
exactStage(contact, tmdb) == normalizeString(contact) = normalizeString(tmdb)

\* step 2 with the plain ratio of the normalized names, tokens not sorted
tokenStage_unsorted(contact, tmdb) ==
  calculateRatio(normalizeString(contact), normalizeString(tmdb))

\* Step 2: tokenSortRatio(contactNormalized, tmdbNormalized)
tokenStage(contact, tmdb) ==
  tokenSortRatio(normalizeString(contact), normalizeString(tmdb))

nameParts(name) == splitOnWhitespace(normalizeString(name))

\* step 3 guard without the comparison of the last names
lastNamesMatch_partCountOnly(contact, tmdb) ==
  Len(splitOnWhitespace(normalizeString(contact))) >= 2
    /\ Len(splitOnWhitespace(normalizeString(tmdb))) >= 2

\* Step 3 guard: both have >= 2 parts and contactLastName === tmdbLastName
lastNamesMatch(contact, tmdb) ==
  LET contactParts == nameParts(contact)
      tmdbParts == nameParts(tmdb)
  IN  /\ Len(contactParts) >= 2
      /\ Len(tmdbParts) >= 2
      /\ contactParts[Len(contactParts)] = tmdbParts[Len(tmdbParts)]

\* nickname check in one direction only: the TMDB first name among the
\* variations of the contact's first name
nicknameStage_oneWay(contact, tmdb) ==
  LET contactFirstVariations == getNameVariations(nameParts(contact)[1])
      tmdbFirst == normalizeString(nameParts(tmdb)[1])
  IN  \E i \in 1..Len(contactFirstVariations) : contactFirstVariations[i] = tmdbFirst

\* the double loop over contactFirstVariations and tmdbFirstVariations
nicknameStage(contact, tmdb) ==
  LET contactFirstVariations == getNameVariations(nameParts(contact)[1])
      tmdbFirstVariations == getNameVariations(nameParts(tmdb)[1])
  IN  \E i \in 1..Len(contactFirstVariations), j \in 1..Len(tmdbFirstVariations) :
        contactFirstVariations[i] = tmdbFirstVariations[j]

partialStage(contact, tmdb) ==
  isPartialNameMatch(nameParts(contact)[1], nameParts(tmdb)[1])

MatchResult(isMatch, score, matchType) ==
  [isMatch |-> isMatch, score |-> score, matchType |-> matchType]

\* fuzzyMatch as a function of its arguments
fuzzyMatch(contact, tmdb, thr) ==
  IF exactStage(contact, tmdb) THEN MatchResult(TRUE, 100, "exact")
  ELSE LET score == tokenStage(contact, tmdb)
       IN  IF score >= thr THEN MatchResult(TRUE, score, "fuzzy")
           ELSE IF lastNamesMatch(contact, tmdb) /\ nicknameStage(contact, tmdb)
                THEN MatchResult(TRUE, 95, "nickname")
           ELSE IF lastNamesMatch(contact, tmdb) /\ partialStage(contact, tmdb)
                THEN MatchResult(TRUE, 93, "partial")
           ELSE MatchResult(FALSE, score, "none")

-----------------------------------------------------------------------------
(* One call of fuzzyMatch, stage by stage.                                  *)

\* threshold: number = 90
DefaultThreshold == 90

\* Names given to the matcher: contact full names and TMDB credit names.
Names ==
  { "Daniel Craig", " DANIEL CRAIG ", "Dan Craig", "dan  craig", "Craig Daniel",
    "Dan Smith", "Jon Smith", "John Smith", "Bob Craig", "Rob Craig",
    "Robert Downey", "Bob Downey", "Robert Downey Jr",
    "Ale Craig", "Alexander Craig", "Al Craig", "Albert Craig",
    "Op Smith", "Opey Smith", "Opeyemi Smith",
    "Craig", "Cra Craig", "Jane Doe", "", "  " }

Thresholds == {75, DefaultThreshold, 101}

NoResult == [isMatch |-> FALSE, score |-> -1, matchType |-> "pending"]

FuzzyMatchStart ==
  /\ contactFullName \in Names
  /\ tmdbName \in Names
  /\ threshold \in Thresholds
  /\ fmPc = "step1"
  /\ tokenScore = -1
  /\ fmResult = NoResult
  /\ fmEvaluated = {}

\* Step 1: Exact Match
FuzzyMatchExact ==
  /\ fmPc = "step1"
  /\ fmEvaluated' = fmEvaluated \cup {"exact"}
  /\ IF exactStage(contactFullName, tmdbName)
     THEN /\ fmResult' = MatchResult(TRUE, 100, "exact")
          /\ fmPc' = "returned"
     ELSE /\ fmPc' = "step2"
          /\ UNCHANGED fmResult
  /\ UNCHANGED <<contactFullName, tmdbName, threshold, tokenScore>>
  /\ UNCHANGED notFuzzy

\* Step 2: Token Sort Ratio
FuzzyMatchTokenSort ==
  /\ fmPc = "step2"
  /\ fmEvaluated' = fmEvaluated \cup {"fuzzy"}
  /\ tokenScore' = tokenStage(contactFullName, tmdbName)
  /\ IF tokenScore' >= threshold
     THEN /\ fmResult' = MatchResult(TRUE, tokenScore', "fuzzy")
          /\ fmPc' = "returned"
     ELSE /\ fmPc' = "step3"
          /\ UNCHANGED fmResult
  /\ UNCHANGED <<contactFullName, tmdbName, threshold>>
  /\ UNCHANGED notFuzzy

\* Step 3: the part-count and last-name guards, then the nickname check
FuzzyMatchNickname ==
  /\ fmPc = "step3"
  /\ IF lastNamesMatch(contactFullName, tmdbName)
     THEN /\ fmEvaluated' = fmEvaluated \cup {"nickname"}
          /\ IF nicknameStage(contactFullName, tmdbName)
             THEN /\ fmResult' = MatchResult(TRUE, 95, "nickname")
                  /\ fmPc' = "returned"
             ELSE /\ fmPc' = "partial"
                  /\ UNCHANGED fmResult
     ELSE /\ fmPc' = "none"
          /\ UNCHANGED <<fmResult, fmEvaluated>>
  /\ UNCHANGED <<contactFullName, tmdbName, threshold, tokenScore>>
  /\ UNCHANGED notFuzzy

\* the partial name check, inside the last-name guard
FuzzyMatchPartial ==
  /\ fmPc = "partial"
  /\ fmEvaluated' = fmEvaluated \cup {"partial"}
  /\ IF partialStage(contactFullName, tmdbName)
     THEN /\ fmResult' = MatchResult(TRUE, 93, "partial")
          /\ fmPc' = "returned"
     ELSE /\ fmPc' = "none"
          /\ UNCHANGED fmResult
  /\ UNCHANGED <<contactFullName, tmdbName, threshold, tokenScore>>
  /\ UNCHANGED notFuzzy

\* the final return reporting score 0 instead of the stage-2 score
FuzzyMatchNone_zeroScore ==
  /\ fmPc = "none"
  /\ fmResult' = MatchResult(FALSE, 0, "none")
  /\ fmPc' = "returned"
  /\ UNCHANGED <<contactFullName, tmdbName, threshold, tokenScore, fmEvaluated>>
  /\ UNCHANGED notFuzzy

\* No match found
FuzzyMatchNone ==
  /\ fmPc = "none"
  /\ fmResult' = MatchResult(FALSE, tokenScore, "none")
  /\ fmPc' = "returned"
  /\ UNCHANGED <<contactFullName, tmdbName, threshold, tokenScore, fmEvaluated>>
  /\ UNCHANGED notFuzzy

-----------------------------------------------------------------------------
(* get-news-matches: the last-name index and the scan of one wpPost.          *)

WordCharacters == "0123456789ABCDEFGHIJKLMNOPQRSTUVWXYZ_abcdefghijklmnopqrstuvwxyz"

WordCharacterSet == {CharAt(WordCharacters, i) : i \in 1..Len(WordCharacters)}

\* \w of the regular expressions
IsWordChar(c) == c \in WordCharacterSet

Digits == "0123456789"

\* String(n) of a non-negative integer
RECURSIVE String(_)
String(n) ==
  IF n < 10 THEN CharAt(Digits, n + 1)
  ELSE String(n \div 10) \o CharAt(Digits, (n % 10) + 1)

\* parseInt(s) of a string that starts with a digit: its leading digits
RECURSIVE parseDigits(_, _)
parseDigits(s, acc) ==
  IF Len(s) > 0 /\ IndexIn(Digits, Head(s)) > 0
  THEN parseDigits(Tail(s), 10 * acc + IndexIn(Digits, Head(s)) - 1)
  ELSE acc

parseInt(s) == parseDigits(s, 0)

\* replace(/<[^>]*>/g, ' ')
RECURSIVE replaceTags(_)
replaceTags(s) ==
  IF Len(s) = 0 THEN ""
  ELSE IF Head(s) = "<" /\ includes(Tail(s), ">")
       THEN " " \o replaceTags(SubSeq(s, indexOf(Tail(s), ">") + 2, Len(s)))
       ELSE Head(s) \o replaceTags(Tail(s))

\* replace(/&[^;]+;/g, ' ')
RECURSIVE replaceEntities(_)
replaceEntities(s) ==
  IF Len(s) = 0 THEN ""
  ELSE IF Head(s) = "&" /\ indexOf(Tail(s), ";") >= 2
       THEN " " \o replaceEntities(SubSeq(s, indexOf(Tail(s), ";") + 2, Len(s)))
       ELSE Head(s) \o replaceEntities(Tail(s))

\* replace(/\s+/g, ' ')
RECURSIVE collapseWhitespace(_)
collapseWhitespace(s) ==
  IF Len(s) = 0 THEN ""
  ELSE IF IsSpace(Head(s)) THEN " " \o collapseWhitespace(trimStart(s))
  ELSE Head(s) \o collapseWhitespace(Tail(s))

cleanText(text) == trim(collapseWhitespace(replaceEntities(replaceTags(text))))

\* parseWordPressContent: the text cheerio leaves of the content once the
\* noise selectors are removed (wpPost.contentText, the library's result), cleaned
parseWordPressContent(wpPost) == cleanText(wpPost.contentText)

\* split(/\W+/): a leading or trailing run of non-word characters leaves an
\* empty string at that end
RECURSIVE dropNonWord(_)
dropNonWord(s) ==
  IF Len(s) > 0 /\ ~IsWordChar(Head(s)) THEN dropNonWord(Tail(s)) ELSE s

RECURSIVE splitWords(_, _, _)
splitWords(s, cur, acc) ==
  IF Len(s) = 0 THEN Append(acc, cur)
  ELSE IF IsWordChar(Head(s))
       THEN splitWords(Tail(s), cur \o Head(s), acc)
       ELSE splitWords(dropNonWord(s), "", Append(acc, cur))

splitOnNonWord(s) == splitWords(s, "", <<>>)

\* new Set(words.filter(w => w.length >= 2)) in iteration (first insertion) order
RECURSIVE uniqueWords(_, _)
uniqueWords(words, acc) ==
  IF Len(words) = 0 THEN acc
  ELSE IF Len(Head(words)) >= 2 /\ \A i \in 1..Len(acc) : acc[i] # Head(words)
       THEN uniqueWords(Tail(words), Append(acc, Head(words)))
       ELSE uniqueWords(Tail(words), acc)

\* createLastNameMap: last name (lowercased, trimmed) -> contactList in list order;
\* a contact with an empty first or last name is skipped
RECURSIVE contactsWithLastName(_, _)
contactsWithLastName(contactList, last) ==
  IF Len(contactList) = 0 THEN <<>>
  ELSE LET c == Head(contactList)
           rest == contactsWithLastName(Tail(contactList), last)
       IN  IF c.first_name # "" /\ c.last_name # "" /\ trim(toLowerCase(c.last_name)) = last
           THEN <<c>> \o rest
           ELSE rest

createLastNameMap(contactList) ==
  LET keys == {trim(toLowerCase(contactList[i].last_name)) :
                 i \in {j \in 1..Len(contactList) :
                          contactList[j].first_name # "" /\ contactList[j].last_name # ""}}
  IN  [last \in keys |-> contactsWithLastName(contactList, last)]

SourceKeys == <<"title", "excerpt", "content", "full">>

\* the srcs array of checkArticleForMatches
sourcesOf(wpPost) ==
  << [key |-> "title", text |-> cleanText(wpPost.title)],
     [key |-> "excerpt", text |-> cleanText(wpPost.excerpt)],
     [key |-> "content", text |-> cleanText(wpPost.content)],
     [key |-> "full", text |-> parseWordPressContent(wpPost)] >>

\* srcs.map(s => (s.text || '').toLowerCase()).join(' ')
combinedLowerOf(srcs) ==
  join([i \in 1..Len(srcs) |-> toLowerCase(srcs[i].text)], " ")

\* candidateLastNames: the unique words that are keys of the index
RECURSIVE keepKeys(_, _)
keepKeys(words, nameMap) ==
  IF Len(words) = 0 THEN <<>>
  ELSE IF Head(words) \in DOMAIN nameMap
       THEN <<Head(words)>> \o keepKeys(Tail(words), nameMap)
       ELSE keepKeys(Tail(words), nameMap)

candidateLastNamesOf(combined, nameMap) ==
  keepKeys(uniqueWords(splitOnNonWord(combined), <<>>), nameMap)

\* the contactList in the order the two nested loops visit them
RECURSIVE potentialsInOrder(_, _)
potentialsInOrder(candidateLastNames, nameMap) ==
  IF Len(candidateLastNames) = 0 THEN <<>>
  ELSE nameMap[Head(candidateLastNames)]
         \o potentialsInOrder(Tail(candidateLastNames), nameMap)

\* chooseLocation returning the last source that holds the name
chooseLocation_lastHit(srcs, fullNameLower) ==
  LET hits == {i \in 1..Len(srcs) : includes(toLowerCase(srcs[i].text), fullNameLower)}
  IN  IF hits = {} THEN "full"
      ELSE srcs[CHOOSE i \in hits : \A k \in hits : i >= k].key

\* chooseLocation: priority title > excerpt > content > full
chooseLocation(srcs, fullNameLower) ==
  LET hits == {i \in 1..Len(srcs) : includes(toLowerCase(srcs[i].text), fullNameLower)}
  IN  IF hits = {} THEN "full"
      ELSE srcs[CHOOSE i \in hits : \A k \in hits : i <= k].key

\* srcs.find(s => s.key === bestKey)?.text || full
bestSourceOf(srcs, bestKey) ==
  LET found == srcs[CHOOSE i \in 1..Len(srcs) : srcs[i].key = bestKey].text
  IN  IF found # "" THEN found ELSE srcs[4].text

\* stands for the character U+2026
Ellipsis == "..."

\* context of findExcerpt as checkArticleForMatches passes it
ExcerptContext == 300

\* String.prototype.slice(start, end) with 0 <= start, end (0-based, end excluded)
slice(text, start, end) == SubSeq(text, start + 1, Min2(end, Len(text)))

findExcerpt(sourceText, contactName, context) ==
  LET lower == toLowerCase(sourceText)
      needle == toLowerCase(contactName)
      idx == indexOf(lower, needle) - 1
  IN  IF idx < 0
      THEN slice(sourceText, 0, context)
             \o (IF Len(sourceText) > context THEN Ellipsis ELSE "")
      ELSE LET start == Max2(0, idx - (context \div 2))
               end == Min2(Len(sourceText), idx + Len(needle) + (context \div 2))
           IN  (IF start > 0 THEN Ellipsis ELSE "")
                 \o slice(sourceText, start, end)
                 \o (IF end < Len(sourceText) THEN Ellipsis ELSE "")

\* the NewsMatch checkArticleForMatches builds for a contact of the wpPost
buildMatch(wpPost, srcs, contact) ==
  LET fullName == contact.first_name \o " " \o contact.last_name
      bestKey == chooseLocation(srcs, toLowerCase(fullName))
  IN  [contactId |-> String(contact.id),
       contactName |-> fullName,
       articleUrl |-> wpPost.link,
       matchLocation |-> bestKey,
       excerpt |-> findExcerpt(bestSourceOf(srcs, bestKey), fullName, ExcerptContext)]

\* the row saveMatchAndBroadcast hands to upsert
rowOf(newsMatch) ==
  [contact_id |-> parseInt(newsMatch.contactId),
   contact_name |-> newsMatch.contactName,
   article_url |-> newsMatch.articleUrl,
   match_location |-> newsMatch.matchLocation,
   excerpt |-> newsMatch.excerpt]

\* { onConflict: 'article_url, contact_id' }
onConflict == {"article_url", "contact_id"}

\* CONSTRAINT unique_news_match UNIQUE (article_url, contact_id)
unique_news_match == {"article_url", "contact_id"}

sameOn(columns, r1, r2) == \A col \in columns : r1[col] = r2[col]

\* a plain INSERT into a table without the unique constraint
upsert_insertOnly(table, row, target) == [error |-> FALSE, table |-> Append(table, row)]

\* INSERT ... ON CONFLICT (target) DO UPDATE on the table, a sequence of rows
\* in insertion order. The statement fails, and leaves the table as it is, when
\* target is not the column list of a unique constraint of the table.
upsert(table, row, target) ==
  LET conflicts == {i \in 1..Len(table) : sameOn(target, table[i], row)}
  IN  IF target # unique_news_match
      THEN [error |-> TRUE, table |-> table]
      ELSE IF conflicts # {}
      THEN [error |-> FALSE,
            table |-> [i \in 1..Len(table) |-> IF i \in conflicts THEN row ELSE table[i]]]
      ELSE [error |-> FALSE, table |-> Append(table, row)]

-----------------------------------------------------------------------------
(* get-news-matches: scan sessions over the news_matches table.             *)

\* Object.entries(WORDPRESS_APIS): deadline, variety, thr
NumPublications == 3

\* invocations of the edge function in one behaviour
MaxScans == 2

\* rows of the contacts table
DanCraig == [id |-> 7, first_name |-> "Dan", last_name |-> "Craig"]
AnnLee == [id |-> 12, first_name |-> "Ann", last_name |-> "Lee "]
JoCraig == [id |-> 3, first_name |-> "Jo", last_name |-> "craig"]
NoFirstName == [id |-> 5, first_name |-> "", last_name |-> "Lee"]
AlDeNiro == [id |-> 9, first_name |-> "Al", last_name |-> "De Niro"]

\* what getAllContactsPaginated returns: the rows of the user, and the same
\* with a row that two pages both returned
ContactLists ==
  { <<DanCraig, AnnLee, DanCraig>>,
    <<JoCraig, DanCraig, NoFirstName, AlDeNiro>> }

\* WordPress posts: link and the rendered title, excerpt and content, and
\* contentText, the text cheerio extracts from the content
PostA ==
  [link |-> "deadline.com/a", title |-> "Dan Craig wins", excerpt |-> "",
   content |-> "<p>Dan Craig and <b>Ann</b> Lee</p>", contentText |-> "Dan Craig and Ann Lee"]
PostA2 ==
  [link |-> "deadline.com/a", title |-> "Update", excerpt |-> "with DAN&nbsp;CRAIG",
   content |-> "<p>more</p>", contentText |-> "more on Dan Craig, Ann Lee"]
PostB ==
  [link |-> "variety.com/b", title |-> "Meet Dan", excerpt |-> "Craig speaks to <i>Jo Craig</i>",
   content |-> "", contentText |-> ""]

\* what fetchWordPressPostsPaginated can return for the publications deadline,
\* variety and thr, when it returns: PostA2 is PostA after an edit
PostC ==
  [link |-> "hollywoodreporter.com/c", title |-> "Dan Craig's film", excerpt |-> "with Al De Niro",
   content |-> "", contentText |-> ""]

PostLists == << {<<PostA>>, <<PostA2>>}, {<<PostB>>}, {<<PostC>>} >>

NoMatch == [contactId |-> "", contactName |-> "", articleUrl |-> "",
            matchLocation |-> "", excerpt |-> ""]
NoPost == [link |-> "", title |-> "", excerpt |-> "", content |-> "", contentText |-> ""]

\* no invocation running: its locals do not exist
NoInvocation ==
  /\ scanPc = "idle"
  /\ contacts = <<>>
  /\ lastNameMap = <<>>
  /\ pubIdx = 0
  /\ posts = <<>>
  /\ postIdx = 0
  /\ post = NoPost
  /\ sources = <<>>
  /\ combinedLower = ""
  /\ potentials = <<>>
  /\ contactIdx = 0
  /\ alreadySaved = {}
  /\ saved = 0
  /\ totalArticles = 0
  /\ totalMatches = 0
  /\ match = NoMatch
  /\ savedLog = <<>>

NewsIdle ==
  /\ news_matches = <<>>
  /\ scans = 0
  /\ NoInvocation

\* serve: load the contacts, build the index, start processAllPublications
ServeNewsRequest ==
  /\ scanPc = "idle"
  /\ scans < MaxScans
  /\ scans' = scans + 1
  /\ \E list \in ContactLists :
       /\ contacts' = list
       /\ lastNameMap' = createLastNameMap(list)
  /\ pubIdx' = 1
  /\ totalArticles' = 0
  /\ totalMatches' = 0
  /\ scanPc' = "fetch"
  /\ UNCHANGED <<news_matches, posts, postIdx, post, sources, combinedLower, potentials,
                 contactIdx, alreadySaved, saved, match, savedLog>>
  /\ UNCHANGED notNews

\* processAllPublications: the next publication, its posts fetched or the
\* fetch failing (caught: on to the next publication); after the last one
\* the response is sent and the invocation is over
FetchPublication ==
  /\ scanPc = "fetch"
  /\ \/ /\ pubIdx > NumPublications
        /\ scanPc' = "idle"
        /\ contacts' = <<>>
        /\ lastNameMap' = <<>>
        /\ pubIdx' = 0
        /\ posts' = <<>>
        /\ postIdx' = 0
        /\ post' = NoPost
        /\ sources' = <<>>
        /\ combinedLower' = ""
        /\ potentials' = <<>>
        /\ contactIdx' = 0
        /\ alreadySaved' = {}
        /\ saved' = 0
        /\ totalArticles' = 0
        /\ totalMatches' = 0
        /\ match' = NoMatch
        /\ savedLog' = <<>>
     \/ /\ pubIdx <= NumPublications
        /\ \E fetched \in PostLists[pubIdx] :
             /\ posts' = fetched
             /\ postIdx' = 1
             /\ scanPc' = "post"
        /\ UNCHANGED <<contacts, lastNameMap, pubIdx, post, sources, combinedLower, potentials,
                       contactIdx, alreadySaved, saved, totalArticles, totalMatches, match,
                       savedLog>>
     \/ /\ pubIdx <= NumPublications
        /\ pubIdx' = pubIdx + 1
        /\ UNCHANGED <<scanPc, contacts, lastNameMap, posts, postIdx, post, sources,
                       combinedLower, potentials, contactIdx, alreadySaved, saved,
                       totalArticles, totalMatches, match, savedLog>>
  /\ UNCHANGED <<news_matches, scans>>
  /\ UNCHANGED notNews

\* the loop over posts; checkArticleForMatches up to its loop over the candidates
NextPost ==
  /\ scanPc = "post"
  /\ IF postIdx > Len(posts)
     THEN /\ pubIdx' = pubIdx + 1
          /\ scanPc' = "fetch"
          /\ UNCHANGED <<post, sources, combinedLower, potentials, contactIdx,
                         alreadySaved, saved, totalArticles, savedLog>>
     ELSE /\ totalArticles' = totalArticles + 1
          /\ post' = posts[postIdx]
          /\ sources' = sourcesOf(post')
          /\ combinedLower' = combinedLowerOf(sources')
          /\ potentials' =
               potentialsInOrder(candidateLastNamesOf(combinedLower', lastNameMap), lastNameMap)
          /\ contactIdx' = 1
          /\ alreadySaved' = {}
          /\ saved' = 0
          /\ savedLog' = <<>>
          /\ scanPc' = "contact"
          /\ UNCHANGED pubIdx
  /\ UNCHANGED <<news_matches, scans, contacts, lastNameMap, posts, postIdx, totalMatches,
                 match>>
  /\ UNCHANGED notNews

\* the two tests without the alreadySaved one
skipContact_nameOnly(cid, fullNameLower) == ~includes(combinedLower, fullNameLower)

\* if (alreadySaved.has(cid)) continue; if (!combinedLower.includes(fullNameLower)) continue
skipContact(cid, fullNameLower) ==
  cid \in alreadySaved \/ ~includes(combinedLower, fullNameLower)

\* one iteration of the loops over candidateLastNames and potentials, up to
\* the call of saveMatchAndBroadcast; past the last one, return saved
CheckContact ==
  /\ scanPc = "contact"
  /\ IF contactIdx > Len(potentials)
     THEN /\ totalMatches' = totalMatches + saved
          /\ postIdx' = postIdx + 1
          /\ scanPc' = "post"
          /\ UNCHANGED <<contactIdx, match>>
     ELSE LET contact == potentials[contactIdx]
              cid == String(contact.id)
              fullNameLower == toLowerCase(contact.first_name \o " " \o contact.last_name)
          IN  /\ IF skipContact(cid, fullNameLower)
                 THEN /\ contactIdx' = contactIdx + 1
                      /\ UNCHANGED <<scanPc, match>>
                 ELSE /\ match' = buildMatch(post, sources, contact)
                      /\ scanPc' = "save"
                      /\ UNCHANGED contactIdx
              /\ UNCHANGED <<totalMatches, postIdx>>
  /\ UNCHANGED <<news_matches, scans, contacts, lastNameMap, pubIdx, posts, post, sources,
                 combinedLower, potentials, alreadySaved, saved, totalArticles, savedLog>>
  /\ UNCHANGED notNews

\* saveMatchAndBroadcast with the caller ignoring the returned flag: the
\* contact is marked and counted whether or not the save succeeded
SaveMatchAndBroadcast_countsFailure ==
  /\ scanPc = "save"
  /\ \E failure \in {"none", "database", "broadcast"} :
       LET result == IF failure = "database"
                     THEN [error |-> TRUE, table |-> news_matches]
                     ELSE upsert(news_matches, rowOf(match), onConflict)
       IN  /\ news_matches' = result.table
           /\ alreadySaved' = alreadySaved \cup {match.contactId}
           /\ saved' = saved + 1
           /\ savedLog' = Append(savedLog, match.contactId)
  /\ contactIdx' = contactIdx + 1
  /\ scanPc' = "contact"
  /\ UNCHANGED <<scans, contacts, lastNameMap, pubIdx, posts, postIdx, post, sources,
                 combinedLower, potentials, totalArticles, totalMatches, match>>
  /\ UNCHANGED notNews

\* saveMatchAndBroadcast(match) and the lines after its call. failure: the
\* upsert cannot reach the database ("database"), the broadcast throws once
\* the row is written ("broadcast"), or neither ("none").
SaveMatchAndBroadcast ==
  /\ scanPc = "save"
  /\ \E failure \in {"none", "database", "broadcast"} :
       LET result == IF failure = "database"
                     THEN [error |-> TRUE, table |-> news_matches]
                     ELSE upsert(news_matches, rowOf(match), onConflict)
           ok == ~result.error /\ failure # "broadcast"
       IN  /\ news_matches' = result.table
           /\ IF ok
              THEN /\ alreadySaved' = alreadySaved \cup {match.contactId}
                   /\ saved' = saved + 1
                   /\ savedLog' = Append(savedLog, match.contactId)
              ELSE UNCHANGED <<alreadySaved, saved, savedLog>>
  /\ contactIdx' = contactIdx + 1
  /\ scanPc' = "contact"
  /\ UNCHANGED <<scans, contacts, lastNameMap, pubIdx, posts, postIdx, post, sources,
                 combinedLower, potentials, totalArticles, totalMatches, match>>
  /\ UNCHANGED notNews

-----------------------------------------------------------------------------
(* NewsService.processAllFeeds: one session over its three phases.          *)

\* Object.keys(RSS_FEEDS) and Object.keys(SCRAPING_CONFIG)
Publications == <<"deadline", "variety", "thr">>

\* RSS_FEEDS: four feed URLs for each publication
FeedsPerPublication == 4

\* TARGET_DAYS
TARGET_DAYS == 2

\* an article without pubDate
NoPubDate == -1

\* the fullContentLimit of the background process
NoLimit == -1

\* the part of text before the first occurrence of mark
before(text, mark) ==
  IF includes(text, mark) THEN SubSeq(text, 1, indexOf(text, mark) - 1) ELSE text

\* normalizeUrl: protocol https, no hash, no search, no trailing slash of a
\* pathname longer than "/"; the url itself when new URL(url) throws
normalizeUrl(url) ==
  IF ~includes(url, "://") THEN url
  ELSE LET rest == SubSeq(url, indexOf(url, "://") + 3, Len(url))
           noSearch == before(before(rest, "#"), "?")
           slash == indexOf(noSearch, "/")
           host == toLowerCase(IF slash = 0 THEN noSearch ELSE SubSeq(noSearch, 1, slash - 1))
           pathname == IF slash = 0 THEN "/" ELSE SubSeq(noSearch, slash, Len(noSearch))
           stripped == IF Len(pathname) > 1 /\ CharAt(pathname, Len(pathname)) = "/"
                       THEN SubSeq(pathname, 1, Len(pathname) - 1)
                       ELSE pathname
       IN  "https://" \o host \o stripped

\* isRecentArticle, pubDate being the age of the article in days
isRecentArticle(pubDate) == pubDate = NoPubDate \/ pubDate <= TARGET_DAYS

\* checkRSSItem and checkScrapedArticle: the contacts whose lowercased full
\* name the title holds, or else the description (the excerpt) holds, in the
\* order of the contacts; a contact without first or last name is skipped
RECURSIVE checkTitleAndText(_, _, _)
checkTitleAndText(title, text, contactList) ==
  IF Len(contactList) = 0 THEN <<>>
  ELSE LET contact == Head(contactList)
           fullName == toLowerCase(contact.firstName \o " " \o contact.lastName)
           rest == checkTitleAndText(title, text, Tail(contactList))
       IN  IF contact.firstName = "" \/ contact.lastName = "" THEN rest
           ELSE IF includes(toLowerCase(title), fullName)
           THEN <<[contact |-> contact, matchLocation |-> "title"]>> \o rest
           ELSE IF includes(toLowerCase(text), fullName)
           THEN <<[contact |-> contact, matchLocation |-> "description"]>> \o rest
           ELSE rest

checkRSSItem(item, contactList) == checkTitleAndText(item.title, item.description, contactList)

checkScrapedArticle(article, contactList) ==
  checkTitleAndText(article.title, article.excerpt, contactList)

\* the contacts whose full name the full content holds, in the order of the contacts
RECURSIVE checkFullContent(_, _)
checkFullContent(content, contactList) ==
  IF Len(contactList) = 0 THEN <<>>
  ELSE LET contact == Head(contactList)
           fullName == contact.firstName \o " " \o contact.lastName
           rest == checkFullContent(content, Tail(contactList))
       IN  IF includes(toLowerCase(content), toLowerCase(fullName))
           THEN <<[contact |-> contact, matchLocation |-> "Full Article"]>> \o rest
           ELSE rest

\* the NewsMatch of a finding
newsMatchOf(found, url, source) ==
  [contactId |-> found.contact.id,
   contactName |-> found.contact.firstName \o " " \o found.contact.lastName,
   articleUrl |-> url,
   matchLocation |-> found.matchLocation,
   source |-> source]

\* `${match.articleUrl}-${match.contactId}`
matchKeyOf(newsMatch) == newsMatch.articleUrl \o "-" \o newsMatch.contactId

\* the check before the callback without sessionMatchKeys.add
reportMatch_noAdd(session, newsMatch) ==
  LET matchKey == matchKeyOf(newsMatch)
  IN  IF matchKey \in session.keys
      THEN [session EXCEPT !.findings = Append(@, matchKey)]
      ELSE [keys |-> session.keys,
            calls |-> Append(session.calls, newsMatch),
            findings |-> Append(session.findings, matchKey)]

\* if (!sessionMatchKeys.has(matchKey)) { sessionMatchKeys.add(matchKey);
\* onMatchFound(match) }, on the session's keys and the calls of onMatchFound
\* so far; findings records every matchKey computed
reportMatch(session, newsMatch) ==
  LET matchKey == matchKeyOf(newsMatch)
  IN  IF matchKey \in session.keys
      THEN [session EXCEPT !.findings = Append(@, matchKey)]
      ELSE [keys |-> session.keys \cup {matchKey},
            calls |-> Append(session.calls, newsMatch),
            findings |-> Append(session.findings, matchKey)]

\* the loop over the findings of one article
RECURSIVE reportAll(_, _, _, _)
reportAll(session, founds, url, source) ==
  IF Len(founds) = 0 THEN session
  ELSE reportAll(reportMatch(session, newsMatchOf(Head(founds), url, source)),
                 Tail(founds), url, source)

\* allUniqueArticles.set(url, article): a Map in insertion order
mapSet(articles, article) ==
  IF \E i \in 1..Len(articles) : articles[i].url = article.url
  THEN [i \in 1..Len(articles) |-> IF articles[i].url = article.url THEN article ELSE articles[i]]
  ELSE Append(articles, article)

\* allUniqueArticles.has(url)
mapHas(articles, url) == \E i \in 1..Len(articles) : articles[i].url = url

\* uniqueArticles.slice(0, fullContentLimit), or all of them without a limit
articlesToDeepScanOf(articles, limit) ==
  IF limit = NoLimit THEN articles ELSE SubSeq(articles, 1, Min2(limit, Len(articles)))

\* the contacts of the caller
FeedDan == [id |-> "7", firstName |-> "Dan", lastName |-> "Craig"]
FeedAnn == [id |-> "12", firstName |-> "Ann", lastName |-> "Lee"]

\* contacts whose row lacks a name
FeedNoFirst == [id |-> "5", firstName |-> "", lastName |-> "Craig"]
FeedNoLast == [id |-> "4", firstName |-> "Ann", lastName |-> ""]

FeedContactLists ==
  { <<FeedDan, FeedAnn>>, <<FeedAnn, FeedDan, FeedDan>>, <<FeedNoFirst, FeedAnn, FeedNoLast>> }

\* what the feeds, the scraped pages and the article pages hold
ItemA == [title |-> "Dan Craig wins", link |-> "http://Deadline.com/a/?utm=rss",
          description |-> "The award", pubDate |-> 0]
ItemN == [title |-> "Awards night", link |-> "https://deadline.com/n",
          description |-> "with Ann Lee and DAN CRAIG", pubDate |-> 5]
ItemA2 == [title |-> "Dan Craig wins", link |-> "https://deadline.com/a#top",
           description |-> "", pubDate |-> 0]
ScrapedA == [title |-> "Dan Craig wins", url |-> "https://deadline.com/a/",
             excerpt |-> "", pubDate |-> NoPubDate]
ScrapedF == [title |-> "Festival", url |-> "https://variety.com/f",
             excerpt |-> "Ann Lee attends", pubDate |-> NoPubDate]

\* the items of the feeds, by position in RSS_FEEDS
RssFeedItems ==
  [i \in 1..(Len(Publications) * FeedsPerPublication) |->
     IF i = 1 THEN <<ItemA, ItemN>> ELSE IF i = 2 THEN <<ItemA2>> ELSE <<>>]

\* the articles scrapeArticlePages finds, by publication
ScrapedArticles == << <<ScrapedA>>, <<ScrapedF>>, <<>> >>

\* the text fetchFullArticleContent extracts from the page of an article
FullContentOf(url) ==
  IF url = "https://deadline.com/a" THEN "Dan Craig thanked Ann Lee"
  ELSE IF url = "https://variety.com/f" THEN "Ann Lee and others"
  ELSE "Awards"

\* the matches the caller already holds
ExistingMatchLists ==
  { <<>>, <<[contactId |-> "12", contactName |-> "Ann Lee",
             articleUrl |-> "https://deadline.com/a",
             matchLocation |-> "Full Article", source |-> "rss"]>> }

FullContentLimits == {NoLimit, 1}

FeedsIdle ==
  /\ feedPc = "idle"
  /\ feedContacts = <<>>
  /\ existingMatches = <<>>
  /\ fullContentLimit = NoLimit
  /\ aborted = FALSE
  /\ sessionMatchKeys = {}
  /\ onMatchFoundCalls = <<>>
  /\ findings = <<>>
  /\ allUniqueArticles = <<>>
  /\ feedIndex = 0
  /\ feedItems = <<>>
  /\ itemIdx = 0
  /\ scrapeIdx = 0
  /\ articlesToDeepScan = <<>>
  /\ deepIdx = 0
  /\ fullContent = ""

\* the call of processAllFeeds up to the first loop
ProcessAllFeeds ==
  /\ feedPc = "idle"
  /\ \E list \in FeedContactLists, existing \in ExistingMatchLists, limit \in FullContentLimits :
       /\ feedContacts' = list
       /\ existingMatches' = existing
       /\ fullContentLimit' = limit
       /\ sessionMatchKeys' = {matchKeyOf(existing[i]) : i \in 1..Len(existing)}
  /\ feedIndex' = 1
  /\ feedPc' = "rss"
  /\ UNCHANGED <<aborted, onMatchFoundCalls, findings, allUniqueArticles, feedItems, itemIdx,
                 scrapeIdx, articlesToDeepScan, deepIdx, fullContent>>
  /\ UNCHANGED notFeeds

\* the caller aborts the signal while the session is suspended
Abort ==
  /\ feedPc \notin {"idle", "done", "aborted"}
  /\ ~aborted
  /\ aborted' = TRUE
  /\ UNCHANGED <<feedPc, feedContacts, existingMatches, fullContentLimit, sessionMatchKeys,
                 onMatchFoundCalls, findings, allUniqueArticles, feedIndex, feedItems, itemIdx,
                 scrapeIdx, articlesToDeepScan, deepIdx, fullContent>>
  /\ UNCHANGED notFeeds

\* phase 1, the top of the loops over the publications and their feeds:
\* past the last feed, on to phase 2; aborted, the AbortError leaves the
\* function; else fetchRSSFeed returns the feed or throws (caught: next feed)
FetchRSSFeed ==
  /\ feedPc = "rss"
  /\ \/ /\ feedIndex > Len(RssFeedItems)
        /\ scrapeIdx' = 1
        /\ feedPc' = "scrape"
        /\ UNCHANGED <<feedIndex, feedItems, itemIdx>>
     \/ /\ feedIndex <= Len(RssFeedItems)
        /\ aborted
        /\ feedPc' = "aborted"
        /\ UNCHANGED <<feedIndex, feedItems, itemIdx, scrapeIdx>>
     \/ /\ feedIndex <= Len(RssFeedItems)
        /\ ~aborted
        /\ feedItems' = RssFeedItems[feedIndex]
        /\ itemIdx' = 1
        /\ feedPc' = "rssItems"
        /\ UNCHANGED <<feedIndex, scrapeIdx>>
     \/ /\ feedIndex <= Len(RssFeedItems)
        /\ ~aborted
        /\ feedIndex' = feedIndex + 1
        /\ UNCHANGED <<feedPc, feedItems, itemIdx, scrapeIdx>>
  /\ UNCHANGED <<feedContacts, existingMatches, fullContentLimit, aborted, sessionMatchKeys,
                 onMatchFoundCalls, findings, allUniqueArticles, articlesToDeepScan, deepIdx,
                 fullContent>>
  /\ UNCHANGED notFeeds

\* phase 1, one item of the feed up to the delay after it: past the last
\* item, the next feed; aborted, the AbortError is caught by the catch of the
\* feed: the next feed
ProcessRSSItem ==
  /\ feedPc = "rssItems"
  /\ IF itemIdx > Len(feedItems) \/ aborted
     THEN /\ feedIndex' = feedIndex + 1
          /\ feedPc' = "rss"
          /\ UNCHANGED <<itemIdx, allUniqueArticles, sessionMatchKeys, onMatchFoundCalls,
                         findings>>
     ELSE LET item == feedItems[itemIdx]
              normalizedUrl == normalizeUrl(item.link)
              session == reportAll([keys |-> sessionMatchKeys, calls |-> onMatchFoundCalls,
                                    findings |-> findings],
                                   checkRSSItem(item, feedContacts), normalizedUrl, "rss")
          IN  /\ allUniqueArticles' =
                   mapSet(allUniqueArticles,
                          [title |-> item.title, url |-> normalizedUrl,
                           pubDate |-> item.pubDate, excerpt |-> item.description,
                           publication |-> Publications[((feedIndex - 1) \div FeedsPerPublication) + 1],
                           source |-> "rss"])
              /\ sessionMatchKeys' = session.keys
              /\ onMatchFoundCalls' = session.calls
              /\ findings' = session.findings
              /\ itemIdx' = itemIdx + 1
              /\ UNCHANGED <<feedIndex, feedPc>>
  /\ UNCHANGED <<feedContacts, existingMatches, fullContentLimit, aborted, feedItems, scrapeIdx,
                 articlesToDeepScan, deepIdx, fullContent>>
  /\ UNCHANGED notFeeds

\* phase 2, the top of the loop over the publications: past the last one, on
\* to phase 3 with articlesToDeepScan; aborted, the AbortError leaves the
\* function; else scrapeArticlePages returns or throws (caught: next one)
ScrapePublication ==
  /\ feedPc = "scrape"
  /\ \/ /\ scrapeIdx > Len(Publications)
        /\ articlesToDeepScan' = articlesToDeepScanOf(allUniqueArticles, fullContentLimit)
        /\ deepIdx' = 1
        /\ feedPc' = "deep"
        /\ UNCHANGED <<scrapeIdx, feedItems, itemIdx>>
     \/ /\ scrapeIdx <= Len(Publications)
        /\ aborted
        /\ feedPc' = "aborted"
        /\ UNCHANGED <<scrapeIdx, feedItems, itemIdx, articlesToDeepScan, deepIdx>>
     \/ /\ scrapeIdx <= Len(Publications)
        /\ ~aborted
        /\ feedItems' = ScrapedArticles[scrapeIdx]
        /\ itemIdx' = 1
        /\ feedPc' = "scrapeItems"
        /\ UNCHANGED <<scrapeIdx, articlesToDeepScan, deepIdx>>
     \/ /\ scrapeIdx <= Len(Publications)
        /\ ~aborted
        /\ scrapeIdx' = scrapeIdx + 1
        /\ UNCHANGED <<feedPc, feedItems, itemIdx, articlesToDeepScan, deepIdx>>
  /\ UNCHANGED <<feedContacts, existingMatches, fullContentLimit, aborted, sessionMatchKeys,
                 onMatchFoundCalls, findings, allUniqueArticles, feedIndex, fullContent>>
  /\ UNCHANGED notFeeds

\* phase 2, one scraped article up to the delay after it
ProcessScrapedArticle ==
  /\ feedPc = "scrapeItems"
  /\ IF itemIdx > Len(feedItems) \/ aborted
     THEN /\ scrapeIdx' = scrapeIdx + 1
          /\ feedPc' = "scrape"
          /\ UNCHANGED <<itemIdx, allUniqueArticles, sessionMatchKeys, onMatchFoundCalls,
                         findings>>
     ELSE LET article == feedItems[itemIdx]
              normalizedUrl == normalizeUrl(article.url)
              session == reportAll([keys |-> sessionMatchKeys, calls |-> onMatchFoundCalls,
                                    findings |-> findings],
                                   checkScrapedArticle(article, feedContacts), normalizedUrl,
                                   "scraping")
          IN  /\ allUniqueArticles' =
                   IF mapHas(allUniqueArticles, normalizedUrl) THEN allUniqueArticles
                   ELSE mapSet(allUniqueArticles,
                               [title |-> article.title, url |-> normalizedUrl,
                                pubDate |-> article.pubDate, excerpt |-> article.excerpt,
                                publication |-> Publications[scrapeIdx],
                                source |-> "scraping"])
              /\ sessionMatchKeys' = session.keys
              /\ onMatchFoundCalls' = session.calls
              /\ findings' = session.findings
              /\ itemIdx' = itemIdx + 1
              /\ UNCHANGED <<scrapeIdx, feedPc>>
  /\ UNCHANGED <<feedContacts, existingMatches, fullContentLimit, aborted, feedItems, feedIndex,
                 articlesToDeepScan, deepIdx, fullContent>>
  /\ UNCHANGED notFeeds

\* phase 3, the top of the loop over articlesToDeepScan up to the return of
\* fetchFullArticleContent: the text of the page, or '' when the fetch fails
FetchFullArticle ==
  /\ feedPc = "deep"
  /\ IF deepIdx > Len(articlesToDeepScan)
     THEN /\ feedPc' = "done"
          /\ UNCHANGED <<deepIdx, fullContent>>
     ELSE IF aborted
     THEN /\ feedPc' = "aborted"
          /\ UNCHANGED <<deepIdx, fullContent>>
     ELSE IF ~isRecentArticle(articlesToDeepScan[deepIdx].pubDate)
     THEN /\ deepIdx' = deepIdx + 1
          /\ UNCHANGED <<feedPc, fullContent>>
     ELSE /\ \E content \in {"", FullContentOf(articlesToDeepScan[deepIdx].url)} :
               fullContent' = content
          /\ feedPc' = "deepCheck"
          /\ UNCHANGED deepIdx
  /\ UNCHANGED <<feedContacts, existingMatches, fullContentLimit, aborted, sessionMatchKeys,
                 onMatchFoundCalls, findings, allUniqueArticles, feedIndex, feedItems, itemIdx,
                 scrapeIdx, articlesToDeepScan>>
  /\ UNCHANGED notFeeds

\* phase 3, the loop over the contacts on the full content up to the delay
\* after it; aborted, the AbortError of its first iteration leaves the function
CheckFullArticle ==
  /\ feedPc = "deepCheck"
  /\ IF fullContent # "" /\ Len(feedContacts) > 0 /\ aborted
     THEN /\ feedPc' = "aborted"
          /\ UNCHANGED <<deepIdx, sessionMatchKeys, onMatchFoundCalls, findings>>
     ELSE LET article == articlesToDeepScan[deepIdx]
              founds == IF fullContent = "" THEN <<>>
                        ELSE checkFullContent(fullContent, feedContacts)
              session == reportAll([keys |-> sessionMatchKeys, calls |-> onMatchFoundCalls,
                                    findings |-> findings],
                                   founds, article.url, article.source)
          IN  /\ sessionMatchKeys' = session.keys
              /\ onMatchFoundCalls' = session.calls
              /\ findings' = session.findings
              /\ deepIdx' = deepIdx + 1
              /\ feedPc' = "deep"
  /\ UNCHANGED <<feedContacts, existingMatches, fullContentLimit, aborted, allUniqueArticles,
                 feedIndex, feedItems, itemIdx, scrapeIdx, articlesToDeepScan, fullContent>>
  /\ UNCHANGED notFeeds

-----------------------------------------------------------------------------
\* get-premiere-matches: the first-name-variant index and the page scan.

\* the body of the loop over firstNameVariations, without the duplicate test
addContactUnder_noDedup(map, variation, contact) ==
  LET existingContacts == IF variation \in DOMAIN map THEN map[variation] ELSE <<>>
  IN  [k \in DOMAIN map \cup {variation} |->
         IF k = variation THEN Append(existingContacts, contact) ELSE map[k]]

\* the body of the loop over firstNameVariations: firstNameMap.get(variation)
\* or [], and the push unless a contact of that id is there
addContactUnder(map, variation, contact) ==
  LET existingContacts == IF variation \in DOMAIN map THEN map[variation] ELSE <<>>
  IN  IF \E i \in 1..Len(existingContacts) : existingContacts[i].id = contact.id
      THEN map
      ELSE [k \in DOMAIN map \cup {variation} |->
              IF k = variation THEN Append(existingContacts, contact) ELSE map[k]]

RECURSIVE addUnderAll(_, _, _)
addUnderAll(map, variations, contact) ==
  IF Len(variations) = 0 THEN map
  ELSE LET next == addContactUnder(map, Head(variations), contact)
       IN  addUnderAll(next, Tail(variations), contact)

\* createFirstNameMap: the loop over contacts, from the map built so far
RECURSIVE createFirstNameMapFrom(_, _)
createFirstNameMapFrom(map, contactList) ==
  IF Len(contactList) = 0 THEN map
  ELSE LET contact == Head(contactList)
           next == IF contact.first_name = "" \/ contact.last_name = ""
                   THEN map
                   ELSE addUnderAll(map, getNameVariations(contact.first_name), contact)
       IN  createFirstNameMapFrom(next, Tail(contactList))

\* new Map()
EmptyMap == [k \in {} |-> <<>>]

createFirstNameMap(contactList) == createFirstNameMapFrom(EmptyMap, contactList)

extractFirstNameVariations(fullName) ==
  LET normalized == normalizeString(fullName)
      parts == splitOnWhitespace(normalized)
      firstName == IF Len(parts) = 0 THEN "" ELSE parts[1]
  IN  IF firstName = "" THEN <<>> ELSE getNameVariations(firstName)

\* the candidates kept in an array: every add appends
RECURSIVE addAllToSet_array(_, _)
addAllToSet_array(set, contactList) ==
  IF Len(contactList) = 0 THEN set
  ELSE addAllToSet_array(Append(set, Head(contactList)), Tail(contactList))

\* potentialContactsSet.add for each contact of a list: a Set keeps the first
RECURSIVE addAllToSet(_, _)
addAllToSet(set, contactList) ==
  IF Len(contactList) = 0 THEN set
  ELSE LET c == Head(contactList)
           next == IF \E i \in 1..Len(set) : set[i] = c THEN set ELSE Append(set, c)
       IN  addAllToSet(next, Tail(contactList))

\* no pruning: every contact of the index is a candidate of every credit
RECURSIVE allOfKeys(_, _, _)
allOfKeys(set, keys, map) ==
  IF keys = {} THEN set
  ELSE LET key == CHOOSE k \in keys : TRUE
       IN  allOfKeys(addAllToSet(set, map[key]), keys \ {key}, map)

potentialContactsOf_everyContact(set, variations, map) == allOfKeys(set, DOMAIN map, map)

\* Array.from(potentialContactsSet) after the loop over the variations
RECURSIVE potentialContactsOf(_, _, _)
potentialContactsOf(set, variations, map) ==
  IF Len(variations) = 0 THEN set
  ELSE LET next == IF Head(variations) \in DOMAIN map
                   THEN addAllToSet(set, map[Head(variations)]) ELSE set
       IN  potentialContactsOf(next, Tail(variations), map)

FUZZY_THRESHOLD == 90

\* the contacts of the user; a missing name is the empty string
RobertDowney == [id |-> 1, first_name |-> "Robert", last_name |-> "Downey"]
DanielCraig == [id |-> 2, first_name |-> "Daniel", last_name |-> "Craig"]
PaulSmith == [id |-> 3, first_name |-> " Paul", last_name |-> "Smith"]
BobNoLast == [id |-> 4, first_name |-> "Bob", last_name |-> ""]
NoFirstDowney == [id |-> 5, first_name |-> "", last_name |-> "Downey"]
AleCraig == [id |-> 6, first_name |-> "Ale", last_name |-> "Craig"]

\* what getAllContactsPaginated can return; in the second list two pages
\* both returned the row of Robert Downey
PremiereContactLists ==
  { <<>>,
    <<RobertDowney, DanielCraig, PaulSmith>>,
    <<RobertDowney, BobNoLast, PaulSmith, RobertDowney, NoFirstDowney>>,
    <<AleCraig, NoFirstDowney, PaulSmith>> }

\* credits as TMDB lists them: cast entries have a character, crew a job
Cast(name, character) == [name |-> name, kind |-> "cast", role |-> "Actor as " \o character]
Crew(name, job) == [name |-> name, kind |-> "crew", role |-> job]

\* a premiere of the page with what creditsMap holds for it (fetched FALSE:
\* the request for its credits failed)
PremiereWith(type, id, fetched, credits) ==
  [type |-> type, id |-> id, fetched |-> fetched, allCredits |-> credits]

PremierePages ==
  { << PremiereWith("movie", 10, TRUE,
         << Cast("Bob Downey", "Hero"), Cast(" Dan Craig ", "Spy"), Cast("Zed Zed", "Z"),
            Crew("Bob Downey", "Producer"), Crew("", "Editor") >>),
       PremiereWith("tv", 11, FALSE, <<>>) >>,
    << PremiereWith("tv", 12, TRUE,
         << Cast("Alexander Craig", "Tsar"), Cast("Paul Smith", "Self"),
            Crew("Robert Downey Jr", "Director") >>),
       PremiereWith("movie", 10, TRUE, << Cast("Rob Craig", "Guest") >>) >>,
    << PremiereWith("tv", 14, TRUE,
         << Cast("Danny  Craig", "Twin"), Crew("Bobby Downey", "Writer"),
            Crew("Ale Craig", "Writer") >>) >>,
    << PremiereWith("movie", 13, TRUE, <<>>) >> }

PremiereIdle ==
  /\ pmPc = "idle"
  /\ pmContacts = <<>>
  /\ firstNameMap = EmptyMap
  /\ pagePremieres = <<>>
  /\ premIdx = 0
  /\ creditIdx = 0
  /\ potentialContacts = <<>>
  /\ candIdx = 0
  /\ comparisons = <<>>
  /\ pmMatches = <<>>
  /\ totalComparisons = 0
  /\ totalSkipped = 0

\* serve, steps 1 to 3: the contacts, the index, the premieres and credits
ServePremiereRequest ==
  /\ pmPc = "idle"
  /\ \E fetchedContacts \in PremiereContactLists, page \in PremierePages :
       /\ pmContacts' = fetchedContacts
       /\ IF Len(fetchedContacts) = 0
          THEN /\ pmPc' = "responded"
               /\ UNCHANGED <<firstNameMap, pagePremieres, premIdx>>
          ELSE /\ firstNameMap' = createFirstNameMap(fetchedContacts)
               /\ pagePremieres' = page
               /\ premIdx' = 1
               /\ pmPc' = "premiere"
  /\ UNCHANGED <<creditIdx, potentialContacts, candIdx, comparisons, pmMatches,
                 totalComparisons, totalSkipped>>
  /\ UNCHANGED notPremiere

\* step 4, the loop over pagePremieres
NextPremiere ==
  /\ pmPc = "premiere"
  /\ IF premIdx > Len(pagePremieres)
     THEN /\ pmPc' = "responded"
          /\ UNCHANGED <<premIdx, creditIdx>>
     ELSE IF ~pagePremieres[premIdx].fetched
     THEN /\ premIdx' = premIdx + 1
          /\ UNCHANGED <<pmPc, creditIdx>>
     ELSE /\ creditIdx' = 1
          /\ pmPc' = "credit"
          /\ UNCHANGED premIdx
  /\ UNCHANGED <<pmContacts, firstNameMap, pagePremieres, potentialContacts, candIdx,
                 comparisons, pmMatches, totalComparisons, totalSkipped>>
  /\ UNCHANGED notPremiere

\* the loop over allCredits, up to the candidates of the credit
NextCredit ==
  /\ pmPc = "credit"
  /\ LET allCredits == pagePremieres[premIdx].allCredits
     IN  IF creditIdx > Len(allCredits)
         THEN /\ premIdx' = premIdx + 1
              /\ pmPc' = "premiere"
              /\ UNCHANGED <<creditIdx, potentialContacts, candIdx, totalSkipped>>
         ELSE LET name == trim(allCredits[creditIdx].name)
                  creditFirstNameVariations == extractFirstNameVariations(name)
                  potential == potentialContactsOf(<<>>, creditFirstNameVariations, firstNameMap)
              IN  IF name = ""
                  THEN /\ creditIdx' = creditIdx + 1
                       /\ UNCHANGED <<premIdx, pmPc, potentialContacts, candIdx, totalSkipped>>
                  ELSE IF Len(creditFirstNameVariations) = 0 \/ Len(potential) = 0
                  THEN /\ totalSkipped' = totalSkipped + 1
                       /\ creditIdx' = creditIdx + 1
                       /\ UNCHANGED <<premIdx, pmPc, potentialContacts, candIdx>>
                  ELSE /\ potentialContacts' = potential
                       /\ candIdx' = 1
                       /\ pmPc' = "compare"
                       /\ UNCHANGED <<premIdx, creditIdx, totalSkipped>>
  /\ UNCHANGED <<pmContacts, firstNameMap, pagePremieres, comparisons, pmMatches,
                 totalComparisons>>
  /\ UNCHANGED notPremiere

\* the loop over potentialContacts: fuzzyMatch and matches.push
CompareCandidate ==
  /\ pmPc = "compare"
  /\ IF candIdx > Len(potentialContacts)
     THEN /\ creditIdx' = creditIdx + 1
          /\ pmPc' = "credit"
          /\ potentialContacts' = <<>>
          /\ candIdx' = 0
          /\ UNCHANGED <<comparisons, pmMatches, totalComparisons>>
     ELSE LET contact == potentialContacts[candIdx]
              premiere == pagePremieres[premIdx]
              credit == premiere.allCredits[creditIdx]
              name == trim(credit.name)
              fullName == contact.first_name \o " " \o contact.last_name
              matchResult == fuzzyMatch(fullName, name, FUZZY_THRESHOLD)
          IN  /\ candIdx' = candIdx + 1
              /\ UNCHANGED <<creditIdx, pmPc, potentialContacts>>
              /\ IF contact.first_name = "" \/ contact.last_name = ""
                 THEN UNCHANGED <<comparisons, pmMatches, totalComparisons>>
                 ELSE /\ totalComparisons' = totalComparisons + 1
                      /\ comparisons' = Append(comparisons,
                           [premiere |-> premIdx, credit |-> creditIdx, contact |-> contact,
                            contactFullName |-> fullName, tmdbName |-> name])
                      /\ pmMatches' =
                           IF matchResult.isMatch
                           THEN Append(pmMatches,
                                  [id |-> String(premiere.id) \o "-" \o String(contact.id),
                                   contactId |-> contact.id, contactName |-> fullName,
                                   premiereType |-> premiere.type, premiereId |-> premiere.id,
                                   role |-> credit.role, matchScore |-> matchResult.score,
                                   matchType |-> matchResult.matchType])
                           ELSE pmMatches
  /\ UNCHANGED <<pmContacts, firstNameMap, pagePremieres, premIdx, totalSkipped>>
  /\ UNCHANGED notPremiere

-----------------------------------------------------------------------------
\* ConcurrencyLimiter of get-premiere-matches.

NumTasks == 5
CreditsLimit == 3
Limits == {1, 2, CreditsLimit}
Tasks == 1..NumTasks

LimiterIdle ==
  /\ limiterLimit = CreditsLimit
  /\ running = 0
  /\ queue = <<>>
  /\ taskState = [t \in Tasks |-> "new"]
  /\ started = <<>>

\* new ConcurrencyLimiter(limit)
LimiterStart ==
  /\ limiterLimit \in Limits
  /\ running = 0
  /\ queue = <<>>
  /\ taskState = [t \in Tasks |-> "new"]
  /\ started = <<>>

\* run starting every task at once
LimiterRun_noLimit ==
  /\ \E t \in Tasks :
       /\ taskState[t] = "new"
       /\ \A u \in Tasks : u < t => taskState[u] # "new"
       /\ running' = running + 1
       /\ taskState' = [taskState EXCEPT ![t] = "running"]
       /\ started' = Append(started, t)
       /\ UNCHANGED queue
  /\ UNCHANGED limiterLimit
  /\ UNCHANGED notLimiter

\* run(task) up to the first await: execute() at once when a slot is free,
\* else the closure is queued; the tasks are numbered in the order of the calls
LimiterRun ==
  /\ \E t \in Tasks :
       /\ taskState[t] = "new"
       /\ \A u \in Tasks : u < t => taskState[u] # "new"
       /\ IF running < limiterLimit
          THEN /\ running' = running + 1
               /\ taskState' = [taskState EXCEPT ![t] = "running"]
               /\ started' = Append(started, t)
               /\ UNCHANGED queue
          ELSE /\ queue' = Append(queue, t)
               /\ taskState' = [taskState EXCEPT ![t] = "queued"]
               /\ UNCHANGED <<running, started>>
  /\ UNCHANGED limiterLimit
  /\ UNCHANGED notLimiter

\* execute without its finally block: a task that throws keeps its slot and
\* calls no queued closure
TaskSettles_keepsSlotOnReject ==
  /\ \E t \in Tasks, outcome \in {"resolved", "rejected"} :
       /\ taskState[t] = "running"
       /\ IF outcome = "rejected"
          THEN /\ taskState' = [taskState EXCEPT ![t] = outcome]
               /\ UNCHANGED <<running, queue, started>>
          ELSE IF Len(queue) > 0
          THEN LET next == Head(queue)
               IN  /\ queue' = Tail(queue)
                   /\ running' = (running - 1) + 1
                   /\ taskState' = [taskState EXCEPT ![t] = outcome, ![next] = "running"]
                   /\ started' = Append(started, next)
          ELSE /\ running' = running - 1
               /\ taskState' = [taskState EXCEPT ![t] = outcome]
               /\ UNCHANGED <<queue, started>>
  /\ UNCHANGED limiterLimit
  /\ UNCHANGED notLimiter

\* the rest of execute once the task's promise settles: resolve or reject,
\* then the finally block, which frees the slot and calls the next closure
TaskSettles ==
  /\ \E t \in Tasks, outcome \in {"resolved", "rejected"} :
       /\ taskState[t] = "running"
       /\ IF Len(queue) > 0
          THEN LET next == Head(queue)
               IN  /\ queue' = Tail(queue)
                   /\ running' = (running - 1) + 1
                   /\ taskState' = [taskState EXCEPT ![t] = outcome, ![next] = "running"]
                   /\ started' = Append(started, next)
          ELSE /\ running' = running - 1
               /\ taskState' = [taskState EXCEPT ![t] = outcome]
               /\ UNCHANGED <<queue, started>>
  /\ UNCHANGED limiterLimit
  /\ UNCHANGED notLimiter

-----------------------------------------------------------------------------
(* The News page and useNewsStore: the isChecking flag under handleCheckNow *)
(* and fetchInitialMatches calls that overlap.                               *)

\* calls of handleCheckNow that can be in flight at once
NumHandlers == 2
Handlers == 1..NumHandlers

\* the store as created, nobody signed in, contacts not loaded
NewsStoreIdle ==
  /\ isChecking = FALSE
  /\ hasPerformedInitialScan = FALSE
  /\ matches = "none"
  /\ lastCheck = "never"
  /\ user = FALSE
  /\ contactsAvailable = FALSE
  /\ checkPc = [h \in Handlers |-> "idle"]
  /\ fetchPc = "idle"

\* useAuthStore: somebody signs in or out
AuthChanges ==
  /\ user' = ~user
  /\ UNCHANGED <<isChecking, hasPerformedInitialScan, matches, lastCheck, contactsAvailable,
                 checkPc, fetchPc>>
  /\ UNCHANGED notStore

\* the contacts finish loading (contactsLoading false, legacyContacts not
\* empty), or are reloaded or emptied
ContactsChange ==
  /\ contactsAvailable' = ~contactsAvailable
  /\ UNCHANGED <<isChecking, hasPerformedInitialScan, matches, lastCheck, user, checkPc,
                 fetchPc>>
  /\ UNCHANGED notStore

\* prepareForNewCheck()
prepareForNewCheck == TRUE

\* handleCheckNow() up to its await: prepareForNewCheck, then the two guards
\* that reset the flag and return, else the request to get-news-matches
handleCheckNow(h) ==
  /\ checkPc[h] = "idle"
  /\ IF ~user \/ ~contactsAvailable
     THEN /\ isChecking' = FALSE
          /\ UNCHANGED checkPc
     ELSE /\ isChecking' = prepareForNewCheck
          /\ checkPc' = [checkPc EXCEPT ![h] = "invoke"]

\* the 'Check Now' buttons, disabled while isChecking or without a user
ClickCheckNow ==
  /\ ~isChecking
  /\ user
  /\ \E h \in Handlers : handleCheckNow(h)
  /\ UNCHANGED <<hasPerformedInitialScan, matches, lastCheck, user, contactsAvailable, fetchPc>>
  /\ UNCHANGED notStore

\* the first-visit effect of the News page
FirstVisitScan ==
  /\ ~hasPerformedInitialScan
  /\ contactsAvailable
  /\ user
  /\ hasPerformedInitialScan' = TRUE
  /\ \E h \in Handlers : handleCheckNow(h)
  /\ UNCHANGED <<matches, lastCheck, user, contactsAvailable, fetchPc>>
  /\ UNCHANGED notStore

\* supabase.functions.invoke('get-news-matches') settles: with data, with a
\* functionError, or by throwing; the finally block resets the flag
CheckNowSettles ==
  \E h \in Handlers :
    /\ checkPc[h] = "invoke"
    /\ \E outcome \in {"data", "functionError", "throws"} :
         lastCheck' = IF outcome = "data" THEN "set" ELSE lastCheck
    /\ isChecking' = FALSE
    /\ checkPc' = [checkPc EXCEPT ![h] = "idle"]
    /\ UNCHANGED <<hasPerformedInitialScan, matches, user, contactsAvailable, fetchPc>>
    /\ UNCHANGED notStore

\* fetchInitialMatches() up to its await, called by the page's effect when
\* there is a user (the page mounts, the user changes)
FetchInitialMatches ==
  /\ fetchPc = "idle"
  /\ user
  /\ isChecking' = TRUE
  /\ fetchPc' = "select"
  /\ UNCHANGED <<hasPerformedInitialScan, matches, lastCheck, user, contactsAvailable, checkPc>>
  /\ UNCHANGED notStore

\* the select on news_matches settles; finally { set({ isChecking: false }) }
FetchSettles ==
  /\ fetchPc = "select"
  /\ \E outcome \in {"data", "error", "throws"} :
       matches' = IF outcome = "data" THEN "fetched" ELSE "none"
  /\ isChecking' = FALSE
  /\ fetchPc' = "idle"
  /\ UNCHANGED <<hasPerformedInitialScan, lastCheck, user, contactsAvailable, checkPc>>
  /\ UNCHANGED notStore

-----------------------------------------------------------------------------
(* The Premieres page: checkForPremieres requesting page after page from    *)
(* get-premiere-matches.                                                     *)

\* the largest total_pages TMDB reports for either list
MaxTotalPages == 4
\* total_pages || 0
TotalPages == 0..MaxTotalPages

\* nextPage: number | null
Null == 0

\* usePremiereStore as created, the page's locals before any run
PremierePageIdle ==
  /\ isProcessing = FALSE
  /\ premiereError = FALSE
  /\ lastChecked = FALSE
  /\ runPc = "idle"
  /\ currentPage = 0
  /\ nextPage = Null
  /\ requestedPages = <<>>
  /\ movieTotalPages = 0
  /\ tvTotalPages = 0

\* the edge function's answer, with only the movie list consulted
nextPageOf_moviesOnly(p, movieTotal, tvTotal) ==
  IF p < movieTotal THEN p + 1 ELSE Null

\* const maxTotalPages = Math.max(movieTotalPages, tvTotalPages);
\* const nextPage = page < maxTotalPages ? page + 1 : null;
nextPageOf(p, movieTotal, tvTotal) ==
  LET maxTotalPages == Max2(movieTotal, tvTotal)
  IN  IF p < maxTotalPages THEN p + 1 ELSE Null

\* checkForPremieres() up to its first await: prepareForNewCheck, the two
\* guards, then the request for page 1
CheckForPremieres ==
  /\ runPc \in {"idle", "finished"}
  /\ \E hasUser, hasContacts \in BOOLEAN :
       IF ~hasUser \/ ~hasContacts
       THEN /\ isProcessing' = FALSE
            /\ runPc' = "finished"
            /\ currentPage' = 0
            /\ nextPage' = Null
            /\ requestedPages' = <<>>
       ELSE /\ isProcessing' = TRUE
            /\ runPc' = "awaiting"
            /\ currentPage' = 1
            /\ nextPage' = 1
            /\ requestedPages' = <<1>>
  /\ premiereError' = FALSE
  /\ movieTotalPages' = 0
  /\ tvTotalPages' = 0
  /\ UNCHANGED lastChecked
  /\ UNCHANGED notPages

\* processPage(page) settles and the loop body runs to the next await or to
\* the end of checkForPremieres. The edge function answers with the totals
\* TMDB reports at that moment, or that the user has no contacts; or the
\* request fails (functionError, success: false, or an exception).
PageResponse ==
  /\ runPc = "awaiting"
  /\ \/ \E movieTotal, tvTotal \in TotalPages, noContacts \in BOOLEAN :
          LET next == IF noContacts THEN Null ELSE nextPageOf(currentPage, movieTotal, tvTotal)
          IN  /\ movieTotalPages' = IF noContacts THEN 0 ELSE movieTotal
              /\ tvTotalPages' = IF noContacts THEN 0 ELSE tvTotal
              /\ nextPage' = next
              /\ currentPage' = currentPage + 1
              /\ IF next # Null
                 THEN /\ requestedPages' = Append(requestedPages, currentPage + 1)
                      /\ UNCHANGED <<isProcessing, lastChecked, runPc>>
                 ELSE /\ lastChecked' = TRUE
                      /\ isProcessing' = FALSE
                      /\ runPc' = "finished"
                      /\ UNCHANGED requestedPages
              /\ UNCHANGED premiereError
     \/ /\ premiereError' = TRUE
        /\ isProcessing' = FALSE
        /\ runPc' = "finished"
        /\ UNCHANGED <<lastChecked, currentPage, nextPage, requestedPages, movieTotalPages,
                       tvTotalPages>>
  /\ UNCHANGED notPages

-----------------------------------------------------------------------------
(* Safe Outlook Sync: the contacts of Microsoft Graph upserted into the     *)
(* contacts table, then the stale Outlook contacts deleted.                  *)

SyncUsers == {"u1", "u2"}

\* contacts as Microsoft Graph returns them
MsAnn == [displayName |-> "Ann B Lee", emailAddresses |-> <<"A@X.io">>]
MsBob == [displayName |-> "Bob", emailAddresses |-> <<"bob@y.io", "b@x.io">>]
MsNoMail == [displayName |-> "Zed Zed", emailAddresses |-> <<>>]
MsCy == [displayName |-> "", emailAddresses |-> <<"c@x.io">>]
MsBobAgain == [displayName |-> "Bobby Ray", emailAddresses |-> <<"bob@y.io">>]

OutlookContactLists ==
  { <<>>, <<MsNoMail>>, <<MsAnn>>, <<MsBob, MsNoMail>>, <<MsCy, MsBob>>, <<MsAnn, MsCy>>,
    <<MsBob, MsBobAgain>> }

ContactRow(userId, firstName, lastName, email, category, source) ==
  [user_id |-> userId, first_name |-> firstName, last_name |-> lastName, email |-> email,
   category |-> category,
   normalized_name |-> trim(toLowerCase(firstName \o " " \o lastName)),
   source |-> source]

\* the contacts table before any sync: CSV imports of two users and one
\* contact of an earlier Outlook sync
InitialContacts ==
  << ContactRow("u1", "Ann", "Lee", "a@x.io", "ACTOR", "csv"),
     ContactRow("u2", "Cy", "Young", "c@x.io", "DIRECTOR", "csv"),
     ContactRow("u1", "Old", "Pal", "old@x.io", "OTHER", "outlook"),
     ContactRow("u1", "Di", "Roe", "d@x.io", "OTHER", "csv") >>

OutlookSyncIdle ==
  /\ contactsTable = InitialContacts
  /\ syncPc = "idle"
  /\ syncUser = ""
  /\ processedContacts = <<>>

\* allOutlookContacts.filter(...).map(...)
processContact(userId, contact) ==
  LET displayName == contact.displayName
      space == indexOf(displayName, " ")
      firstName == IF space = 0 THEN displayName ELSE SubSeq(displayName, 1, space - 1)
      lastName == IF space = 0 THEN ""
                  ELSE SubSeq(displayName, space + 1, Len(displayName))
  IN  ContactRow(userId, firstName, lastName, toLowerCase(contact.emailAddresses[1]),
                 "OTHER", "outlook")

RECURSIVE processContactsOf(_, _)
processContactsOf(userId, outlookContacts) ==
  IF outlookContacts = <<>> THEN <<>>
  ELSE LET contact == Head(outlookContacts)
           rest == processContactsOf(userId, Tail(outlookContacts))
       IN  IF Len(contact.emailAddresses) > 0
           THEN <<processContact(userId, contact)>> \o rest
           ELSE rest

\* { onConflict: 'user_id,email' }
contactsOnConflict == {"user_id", "email"}

\* .upsert(rows, { onConflict }): INSERT ... ON CONFLICT (user_id, email) DO
\* UPDATE SET every column given. One statement cannot update a row twice:
\* two rows of the same key make it fail.
upsertContacts(table, rows) ==
  LET key(r) == <<r.user_id, r.email>>
      clash == \E i, j \in 1..Len(rows) : i # j /\ key(rows[i]) = key(rows[j])
      incoming(r) == {k \in 1..Len(rows) : key(rows[k]) = key(r)}
      updated == [i \in 1..Len(table) |->
                    IF incoming(table[i]) = {} THEN table[i]
                    ELSE rows[CHOOSE k \in incoming(table[i]) : TRUE]]
      inserted == SelectSeq(rows, LAMBDA r : \A i \in 1..Len(table) : key(table[i]) # key(r))
  IN  IF clash THEN [error |-> TRUE, table |-> table]
      ELSE [error |-> FALSE, table |-> updated \o inserted]

\* .delete().eq('user_id', id).eq('source', 'outlook')[.not('email', 'in', list)]
deleteStale(table, userId, currentOutlookEmails) ==
  SelectSeq(table, LAMBDA r :
    ~(/\ r.user_id = userId
      /\ r.source = "outlook"
      /\ (currentOutlookEmails # {} => r.email \notin currentOutlookEmails)))

\* the request up to the upsert: the user is authenticated and the Graph
\* pages are fetched (a failure of either returns with nothing changed)
SyncFetchOutlook ==
  /\ syncPc = "idle"
  /\ \E userId \in SyncUsers, fetched \in OutlookContactLists, ok \in BOOLEAN :
       IF ok
       THEN /\ syncUser' = userId
            /\ processedContacts' = processContactsOf(userId, fetched)
            /\ syncPc' = IF processContactsOf(userId, fetched) # <<>> THEN "upsert"
                         ELSE "delete"
       ELSE UNCHANGED <<syncUser, processedContacts, syncPc>>
  /\ UNCHANGED contactsTable
  /\ UNCHANGED notSync

\* SAFE OPERATION 1
SyncUpsert ==
  /\ syncPc = "upsert"
  /\ \E unreachable \in BOOLEAN :
       LET result == IF unreachable THEN [error |-> TRUE, table |-> contactsTable]
                     ELSE upsertContacts(contactsTable, processedContacts)
       IN  /\ contactsTable' = result.table
           /\ IF result.error
              THEN /\ syncPc' = "idle"
                   /\ syncUser' = ""
                   /\ processedContacts' = <<>>
              ELSE /\ syncPc' = "delete"
                   /\ UNCHANGED <<syncUser, processedContacts>>
  /\ UNCHANGED notSync

\* SAFE OPERATION 2, and the response
SyncDeleteStale ==
  /\ syncPc = "delete"
  /\ \E deleteError \in BOOLEAN :
       contactsTable' =
         IF deleteError THEN contactsTable
         ELSE deleteStale(contactsTable, syncUser,
                          {processedContacts[i].email : i \in 1..Len(processedContacts)})
  /\ syncPc' = "idle"
  /\ syncUser' = ""
  /\ processedContacts' = <<>>
  /\ UNCHANGED notSync

-----------------------------------------------------------------------------
FuzzyIdle ==
  /\ contactFullName = ""
  /\ tmdbName = ""
  /\ threshold = DefaultThreshold
  /\ fmPc = "idle"
  /\ tokenScore = -1
  /\ fmResult = NoResult
  /\ fmEvaluated = {}

\* calls of fuzzyMatch
InitFuzzy == FuzzyMatchStart /\ NewsIdle /\ FeedsIdle /\ PremiereIdle /\ LimiterIdle /\ NewsStoreIdle /\ PremierePageIdle /\ OutlookSyncIdle
NextFuzzy ==
  \/ FuzzyMatchExact
  \/ FuzzyMatchTokenSort
  \/ FuzzyMatchNickname
  \/ FuzzyMatchPartial
  \/ FuzzyMatchNone
SpecFuzzy == InitFuzzy /\ [][NextFuzzy]_vars

\* invocations of get-news-matches on the news_matches table
InitNews == NewsIdle /\ FuzzyIdle /\ FeedsIdle /\ PremiereIdle /\ LimiterIdle /\ NewsStoreIdle /\ PremierePageIdle /\ OutlookSyncIdle
NextNews ==
  \/ ServeNewsRequest
  \/ FetchPublication
  \/ NextPost
  \/ CheckContact
  \/ SaveMatchAndBroadcast
SpecNews == InitNews /\ [][NextNews]_vars

\* a session of NewsService.processAllFeeds
InitFeeds == FeedsIdle /\ FuzzyIdle /\ NewsIdle /\ PremiereIdle /\ LimiterIdle /\ NewsStoreIdle /\ PremierePageIdle /\ OutlookSyncIdle
NextFeeds ==
  \/ ProcessAllFeeds
  \/ Abort
  \/ FetchRSSFeed
  \/ ProcessRSSItem
  \/ ScrapePublication
  \/ ProcessScrapedArticle
  \/ FetchFullArticle
  \/ CheckFullArticle
SpecFeeds == InitFeeds /\ [][NextFeeds]_vars

\* a page scan of get-premiere-matches
InitPremiere == PremiereIdle /\ FuzzyIdle /\ NewsIdle /\ FeedsIdle /\ LimiterIdle /\ NewsStoreIdle /\ PremierePageIdle /\ OutlookSyncIdle
NextPremiereScan ==
  \/ ServePremiereRequest
  \/ NextPremiere
  \/ NextCredit
  \/ CompareCandidate
SpecPremiere == InitPremiere /\ [][NextPremiereScan]_vars

\* tasks passed to ConcurrencyLimiter.run, completing in any order
InitLimiter == LimiterStart /\ FuzzyIdle /\ NewsIdle /\ FeedsIdle /\ PremiereIdle /\ NewsStoreIdle /\ PremierePageIdle /\ OutlookSyncIdle
NextLimiter ==
  \/ LimiterRun
  \/ TaskSettles
SpecLimiter == InitLimiter /\ [][NextLimiter]_vars

\* the same, every task that was started settling at some time
SpecLimiterFair == InitLimiter /\ [][NextLimiter]_vars /\ WF_vars(TaskSettles)

\* the News page: sign-in, contacts, news checks and fetches in any order
InitStore ==
  /\ NewsStoreIdle /\ FuzzyIdle /\ NewsIdle /\ FeedsIdle /\ PremiereIdle /\ LimiterIdle
  /\ PremierePageIdle /\ OutlookSyncIdle
NextStore ==
  \/ AuthChanges
  \/ ContactsChange
  \/ ClickCheckNow
  \/ FirstVisitScan
  \/ CheckNowSettles
  \/ FetchInitialMatches
  \/ FetchSettles
SpecStore == InitStore /\ [][NextStore]_vars

\* runs of checkForPremieres, one after the other
InitPages ==
  /\ PremierePageIdle /\ FuzzyIdle /\ NewsIdle /\ FeedsIdle /\ PremiereIdle /\ LimiterIdle
  /\ NewsStoreIdle /\ OutlookSyncIdle
NextPages ==
  \/ CheckForPremieres
  \/ PageResponse
\* every request to the edge function settles
SpecPages == InitPages /\ [][NextPages]_vars /\ WF_vars(PageResponse)

\* Outlook syncs of either user, one after the other
InitSync ==
  /\ OutlookSyncIdle /\ FuzzyIdle /\ NewsIdle /\ FeedsIdle /\ PremiereIdle /\ LimiterIdle
  /\ NewsStoreIdle /\ PremierePageIdle
NextSync ==
  \/ SyncFetchOutlook
  \/ SyncUpsert
  \/ SyncDeleteStale
SpecSync == InitSync /\ [][NextSync]_vars

-----------------------------------------------------------------------------
(* Properties of the news scan.                                             *)

\* the rows of news_matches for an article and a contact
RowsFor(url, cid) ==
  {i \in 1..Len(news_matches) :
     news_matches[i].article_url = url /\ news_matches[i].contact_id = cid}

\* the sources of the article being checked whose lowercased text contains
\* the lowercased name
SourcesHolding(name) ==
  {i \in 1..Len(sources) : includes(toLowerCase(sources[i].text), toLowerCase(name))}

FirstOf(indices) == CHOOSE i \in indices : \A k \in indices : i <= k

\* C1: whatever invocations of the news scan have run, one after the other and
\* over articles already processed, news_matches holds at most one row for
\* each (article_url, contact_id); the conflict target of the upsert is exactly
\* that pair; and once saveMatchAndBroadcast has returned true for a match,
\* the one row of its pair is the row of that match (a second discovery
\* updates the row, it adds none).
C1_OneRecordPerPair ==
  /\ onConflict = {"article_url", "contact_id"}
  /\ \A i, j \in 1..Len(news_matches) :
       sameOn({"article_url", "contact_id"}, news_matches[i], news_matches[j]) => i = j
  /\ match.contactId \in alreadySaved =>
       /\ Cardinality(RowsFor(match.articleUrl, parseInt(match.contactId))) = 1
       /\ \A i \in RowsFor(match.articleUrl, parseInt(match.contactId)) :
            news_matches[i] = rowOf(match)

\* the second invocation, on the edited article, has saved again the pair
\* the first one inserted (the row of variety.com/b, inserted after it, is of
\* the first invocation)
C1_Witness ==
  /\ scans = 2
  /\ post = PostA2
  /\ match.contactId \in alreadySaved
  /\ Len(news_matches) = 2
  /\ news_matches[1] = rowOf(match)
  /\ news_matches[2].article_url = PostB.link

\* C2: in one call of checkArticleForMatches, saveMatchAndBroadcast returns
\* true at most once for a contact id, also for a name held by several sources
\* and for a contact listed twice in the last-name index, and saved, the number
\* returned, is the number of distinct contact ids it returned true for.
C2_OneSavePerContact ==
  /\ \A i, j \in 1..Len(savedLog) : savedLog[i] = savedLog[j] => i = j
  /\ saved = Cardinality({savedLog[i] : i \in 1..Len(savedLog)})
  /\ alreadySaved = {savedLog[i] : i \in 1..Len(savedLog)}

\* the call on PostA returns 2 with Dan Craig listed twice and held by the
\* title, the content and the full text
C2_Witness ==
  /\ scanPc = "contact"
  /\ post = PostA
  /\ Len(potentials) = 3
  /\ potentials[1] = potentials[2]
  /\ Cardinality(SourcesHolding("Dan Craig")) = 3
  /\ contactIdx > Len(potentials)
  /\ saved = 2

\* C3: when more than one source of the article holds the contact's full name,
\* the row saved for the article and the contact has as match_location the
\* first such source in the order title, excerpt, content, full, and as excerpt
\* the excerpt findExcerpt cuts from the text of that source.
C3_FirstSourceWins ==
  (match.contactId \in alreadySaved /\ Cardinality(SourcesHolding(match.contactName)) > 1) =>
    LET first == FirstOf(SourcesHolding(match.contactName))
        rows == RowsFor(post.link, parseInt(match.contactId))
    IN  /\ rows # {}
        /\ \A i \in rows :
             /\ news_matches[i].match_location = SourceKeys[first]
             /\ news_matches[i].excerpt =
                  findExcerpt(sources[first].text, match.contactName, ExcerptContext)
             /\ includes(toLowerCase(news_matches[i].excerpt), toLowerCase(match.contactName))

\* Dan Craig is held by the excerpt and the full text of PostA2, not by its title
C3_Witness ==
  /\ post = PostA2
  /\ match.contactName = "Dan Craig"
  /\ match.contactId \in alreadySaved
  /\ SourcesHolding("Dan Craig") = {2, 4}
  /\ \E i \in RowsFor(PostA2.link, 7) : news_matches[i].match_location = "excerpt"

\* a token with its non-word characters stripped
RECURSIVE StripNonWord(_)
StripNonWord(s) ==
  IF Len(s) = 0 THEN ""
  ELSE (IF IsWordChar(Head(s)) THEN Head(s) ELSE "") \o StripNonWord(Tail(s))

\* the tokens of a text: split on white space, lowercased, stripped of
\* non-word characters, of length 2 at least
TextTokens(text) ==
  LET words == splitOnWhitespace(toLowerCase(text))
  IN  {w \in {StripNonWord(words[i]) : i \in 1..Len(words)} : Len(w) >= 2}

\* conditions (a) and (b) of C18 for a contact and the article being checked
LastNameIsToken(c) == trim(toLowerCase(c.last_name)) \in TextTokens(combinedLower)
FullNameInText(c) ==
  includes(combinedLower, toLowerCase(c.first_name \o " " \o c.last_name))

\* C18: the scan reports a contact for an article exactly when (a) the
\* normalized last name of the contact is one of the tokens of the article
\* text (split on white space, lowercased, stripped of non-word characters, 2
\* characters at least) and (b) the lowercased text contains the lowercased
\* "first last" of the contact: each match the scan builds is of such a
\* contact, and when the scan of the article ends each such contact with both
\* names was among the contacts it tested.
C18_ReportedIffTokenAndFullName ==
  /\ scanPc = "save" =>
       \E i \in 1..Len(contacts) :
         /\ String(contacts[i].id) = match.contactId
         /\ LastNameIsToken(contacts[i])
         /\ FullNameInText(contacts[i])
  /\ (scanPc = "contact" /\ contactIdx > Len(potentials)) =>
       \A i \in 1..Len(contacts) :
         ( /\ contacts[i].first_name # "" /\ contacts[i].last_name # ""
           /\ LastNameIsToken(contacts[i])
           /\ FullNameInText(contacts[i]) )
         => \E k \in 1..Len(potentials) : potentials[k].id = contacts[i].id

\* C21: a failure while saving one match, or while fetching one publication,
\* does not abort the news scan. After every save attempt the scan goes on
\* with the next contact of the same article; a save that left no row for
\* (article, contact) neither marks the contact as saved nor counts it, and a
\* contact is counted exactly when it is marked; the article's successful
\* saves are what is added to totalMatches; a publication whose fetch failed
\* is followed by the next publication, and the invocation returns only once
\* every publication has had its turn.
C21_FailureDoesNotAbortScan ==
  [][/\ scanPc = "save" =>
          /\ scanPc' = "contact"
          /\ contactIdx' = contactIdx + 1
          /\ <<pubIdx', postIdx', posts', potentials'>> = <<pubIdx, postIdx, posts, potentials>>
          /\ saved' \in {saved, saved + 1}
          /\ saved' = saved + 1 <=> match.contactId \in alreadySaved'
          /\ (\A i \in 1..Len(news_matches') :
                ~(/\ news_matches'[i].article_url = match.articleUrl
                  /\ news_matches'[i].contact_id = parseInt(match.contactId)))
             => /\ alreadySaved' = alreadySaved
                /\ saved' = saved
     /\ (scanPc = "contact" /\ scanPc' = "post") =>
          /\ totalMatches' = totalMatches + saved
          /\ saved = Cardinality(alreadySaved)
     /\ (scanPc = "fetch" /\ scanPc' = "fetch") =>
          /\ pubIdx' = pubIdx + 1
          /\ <<totalArticles', totalMatches'>> = <<totalArticles, totalMatches>>
     /\ (scanPc # "idle" /\ scanPc' = "idle") => pubIdx > NumPublications
    ]_vars

\* one of the first two publications could not be fetched, every save for the
\* other one's article failed (one of them after its row was written), and
\* the scan has saved a match of the third publication
C21_Witness ==
  /\ pubIdx = NumPublications
  /\ totalArticles = 2
  /\ totalMatches = 0
  /\ news_matches # <<>>
  /\ saved = 1
  /\ scans = 1

\* C29: a match is built for saving only if one of the four sources, taken
\* by itself, contains the contact's lowercased full name, and the
\* matchLocation of the match names a source whose text contains it; a name
\* that arises only across the boundary of two joined sources is not
\* reported.
C29_MatchedInOneSource ==
  scanPc = "save" =>
    /\ SourcesHolding(match.contactName) # {}
    /\ \E i \in SourcesHolding(match.contactName) : sources[i].key = match.matchLocation

\* the contact's lowercased "first last" occurs in the title, the excerpt or
\* the body of the article being scanned
NameInArticle(c) ==
  \E i \in 1..Len(sources) :
    includes(toLowerCase(sources[i].text), toLowerCase(c.first_name \o " " \o c.last_name))

\* C30: the index-based scan finds what a brute-force scan finds: when the
\* scan of an article ends, every contact with both names whose lowercased
\* "first last" occurs in the title, the excerpt or the body was among the
\* contacts the scan tested and reported, whatever words or punctuation its
\* last name is made of.
C30_IndexScanFindsAll ==
  (scanPc = "contact" /\ contactIdx > Len(potentials)) =>
    \A i \in 1..Len(contacts) :
      (contacts[i].first_name # "" /\ contacts[i].last_name # "" /\ NameInArticle(contacts[i]))
        => \E k \in 1..Len(potentials) : potentials[k].id = contacts[i].id

-----------------------------------------------------------------------------
(* Properties of processAllFeeds.                                           *)

\* the keys of existingMatches
ExistingKeys == {matchKeyOf(existingMatches[i]) : i \in 1..Len(existingMatches)}

\* the calls of onMatchFound with a match of the key
CallsFor(matchKey) ==
  {i \in 1..Len(onMatchFoundCalls) : matchKeyOf(onMatchFoundCalls[i]) = matchKey}

\* the times the session computed the key
FindingsOf(matchKey) == {i \in 1..Len(findings) : findings[i] = matchKey}

\* C4: in a session of processAllFeeds, over the RSS, the scraping and the
\* full-content phase and whenever the caller aborts, onMatchFound is called
\* at most once with a match of a given (articleUrl, contactId) key, and never
\* with a match whose key existingMatches holds; every key the session called
\* onMatchFound with is in sessionMatchKeys.
C4_OnMatchFoundOncePerKey ==
  /\ \A i, j \in 1..Len(onMatchFoundCalls) :
       matchKeyOf(onMatchFoundCalls[i]) = matchKeyOf(onMatchFoundCalls[j]) => i = j
  /\ \A i \in 1..Len(onMatchFoundCalls) :
       /\ matchKeyOf(onMatchFoundCalls[i]) \notin ExistingKeys
       /\ matchKeyOf(onMatchFoundCalls[i]) \in sessionMatchKeys

\* the session found Dan Craig in the article of deadline.com/a in two feeds,
\* on the scraped page and in the full content, and called onMatchFound once;
\* it found Ann Lee there, whom existingMatches holds
C4_Witness ==
  /\ feedPc = "done"
  /\ feedContacts = <<FeedDan, FeedAnn>>
  /\ Cardinality(FindingsOf("https://deadline.com/a-7")) = 4
  /\ Cardinality(CallsFor("https://deadline.com/a-7")) = 1
  /\ "https://deadline.com/a-12" \in ExistingKeys
  /\ FindingsOf("https://deadline.com/a-12") # {}
  /\ CallsFor("https://deadline.com/a-12") = {}

\* the contacts of the session with this id
FeedContactsOf(id) == {j \in 1..Len(feedContacts) : feedContacts[j].id = id}

\* C15: a contact whose first name or last name is missing or empty never
\* produces a news match: every match onMatchFound is called with belongs to
\* a contact that has both names.
C15_NoMatchWithoutBothNames ==
  \A i \in 1..Len(onMatchFoundCalls) :
    \A j \in FeedContactsOf(onMatchFoundCalls[i].contactId) :
      feedContacts[j].firstName # "" /\ feedContacts[j].lastName # ""

\* the positions of the session right after a fetch: of a feed, of the
\* scraped pages of a publication, of the page of an article
AfterFetch == {"rssItems", "scrapeItems", "deepCheck"}

\* C20: once the signal is aborted, in whatever phase, no step of the session
\* fetches a further article or calls onMatchFound, and the session does not
\* end by reporting 'Processing complete!' and resolving: it ends by throwing
\* AbortError.
C20_AbortStopsAndThrows ==
  [][aborted => /\ onMatchFoundCalls' = onMatchFoundCalls
                /\ feedPc' \notin AfterFetch
                /\ feedPc' # "done"]_vars

-----------------------------------------------------------------------------
(* Properties of fuzzyMatch (specification SpecFuzzy).                      *)

Range(seq) == {seq[i] : i \in 1..Len(seq)}

IsPrefixOf(a, b) == \E k \in 0..Len(b) : SubSeq(b, 1, k) = a

NormalizedEqual == trim(toLowerCase(contactFullName)) = trim(toLowerCase(tmdbName))

ContactParts == splitOnWhitespace(trim(toLowerCase(contactFullName)))
TmdbParts == splitOnWhitespace(trim(toLowerCase(tmdbName)))

SurnamesEqual ==
  /\ Len(ContactParts) >= 2
  /\ Len(TmdbParts) >= 2
  /\ ContactParts[Len(ContactParts)] = TmdbParts[Len(TmdbParts)]

FirstNameVariantsIntersect ==
  Range(getNameVariations(ContactParts[1])) \cap Range(getNameVariations(TmdbParts[1])) # {}

ExactAndFuzzyFail ==
  ~NormalizedEqual /\ tokenSortRatio(contactFullName, tmdbName) < threshold

\* C5: names equal after lowercasing and trimming give {true, 100, exact} for
\* every threshold, also above 100, and the call returns from step 1: no
\* later stage is evaluated.
C5_ExactForEveryThreshold ==
  (NormalizedEqual /\ fmPc # "step1")
    => /\ fmPc = "returned"
       /\ fmResult = [isMatch |-> TRUE, score |-> 100, matchType |-> "exact"]
       /\ fmEvaluated = {"exact"}

C5_Witness ==
  /\ fmPc = "returned"
  /\ contactFullName # tmdbName
  /\ NormalizedEqual
  /\ threshold > 100
  /\ fmResult.matchType = "exact"

\* C6: names that differ after normalization with tokenSortRatio >= threshold
\* give {true, ratio, fuzzy}; the nickname and partial stages are not
\* consulted, also when the pair satisfies the nickname condition.
C6_FuzzyBeforeNickname ==
  (~NormalizedEqual /\ tokenSortRatio(contactFullName, tmdbName) >= threshold
     /\ fmPc \notin {"step1", "step2"})
    => /\ fmPc = "returned"
       /\ fmResult = [isMatch |-> TRUE,
                      score |-> tokenSortRatio(contactFullName, tmdbName),
                      matchType |-> "fuzzy"]
       /\ fmEvaluated = {"exact", "fuzzy"}

C6_Witness ==
  /\ fmPc = "returned"
  /\ fmResult.matchType = "fuzzy"
  /\ fmResult.score < 100
  /\ SurnamesEqual
  /\ FirstNameVariantsIntersect

\* Every pair of keys of the alias table that list a common canonical name,
\* with one surname, under a threshold the fuzzy stage cannot reach.
NicknamePairs ==
  {p \in NameVariationsKeys \X NameVariationsKeys :
     /\ p[1] # p[2]
     /\ Range(NAME_VARIATIONS[p[1]]) \cap Range(NAME_VARIATIONS[p[2]]) # {}}

NicknamesOfOneCanonicalMatch ==
  \A p \in NicknamePairs :
    fuzzyMatch(p[1] \o " Craig", p[2] \o " Craig", 101)
      = [isMatch |-> TRUE, score |-> 95, matchType |-> "nickname"]

\* C7: when exact and fuzzy fail, both names have at least two parts, the last
\* parts are equal and the variant sets of the first parts intersect, the
\* result is {true, 95, nickname}; so for Daniel Craig / Dan Craig and for any
\* two nicknames of one canonical name.
C7_NicknameMatch ==
  /\ (fmPc = "returned" /\ ExactAndFuzzyFail /\ SurnamesEqual /\ FirstNameVariantsIntersect)
       => fmResult = [isMatch |-> TRUE, score |-> 95, matchType |-> "nickname"]
  /\ fuzzyMatch("Daniel Craig", "Dan Craig", DefaultThreshold)
       = [isMatch |-> TRUE, score |-> 95, matchType |-> "nickname"]
  /\ NicknamesOfOneCanonicalMatch

C7_Witness ==
  /\ fmPc = "returned"
  /\ contactFullName = "Bob Craig"
  /\ tmdbName = "Rob Craig"
  /\ threshold = DefaultThreshold
  /\ fmResult.matchType = "nickname"

\* C8: when exact and fuzzy fail and the last parts of the two names differ,
\* the result is none with isMatch false whatever the first names are; so for
\* Daniel Craig / Dan Smith, although dan and daniel are aliases.
C8_SurnameMismatchIsNone ==
  /\ (fmPc = "returned" /\ ExactAndFuzzyFail
        /\ ContactParts[Len(ContactParts)] # TmdbParts[Len(TmdbParts)])
       => (fmResult.matchType = "none" /\ fmResult.isMatch = FALSE)
  /\ fuzzyMatch("Daniel Craig", "Dan Smith", DefaultThreshold).matchType = "none"

C8_Witness ==
  /\ fmPc = "returned"
  /\ contactFullName = "Daniel Craig"
  /\ tmdbName = "Dan Smith"
  /\ FirstNameVariantsIntersect
  /\ fmResult.matchType = "none"

\* C9: when exact, fuzzy and nickname fail and the surnames are equal (the
\* guard of stage 3: both names have two parts or more and equal last parts),
\* the result is {true, 93, partial} exactly when one normalized first name is
\* a prefix of the other and both have 3 characters or more, and none
\* otherwise; partial is returned in no other case; Ale/Alexander is a partial
\* match and Al/Albert is not.
C9_PartialMatch ==
  /\ (fmPc = "returned" /\ ExactAndFuzzyFail /\ SurnamesEqual /\ ~FirstNameVariantsIntersect)
       => IF /\ (IsPrefixOf(ContactParts[1], TmdbParts[1])
                   \/ IsPrefixOf(TmdbParts[1], ContactParts[1]))
             /\ Len(ContactParts[1]) >= 3
             /\ Len(TmdbParts[1]) >= 3
          THEN fmResult = [isMatch |-> TRUE, score |-> 93, matchType |-> "partial"]
          ELSE fmResult.matchType = "none"
  /\ (fmPc = "returned" /\ fmResult.matchType = "partial")
       => (ExactAndFuzzyFail /\ SurnamesEqual /\ ~FirstNameVariantsIntersect)
  /\ isPartialNameMatch("Ale", "Alexander")
  /\ ~isPartialNameMatch("Al", "Albert")

C9_Witness ==
  /\ fmPc = "returned"
  /\ contactFullName = "Opeyemi Smith"
  /\ tmdbName = "Opey Smith"
  /\ fmResult.matchType = "partial"

\* C10: every result is well formed: isMatch exactly when matchType is not
\* none; score an integer in 0..100; exact 100, nickname 95, partial 93, fuzzy
\* the tokenSortRatio, which is >= threshold, and none the tokenSortRatio of
\* stage 2, which is < threshold.
C10_ResultWellFormed ==
  fmPc = "returned" =>
    /\ fmResult.isMatch \in BOOLEAN
    /\ fmResult.isMatch <=> (fmResult.matchType # "none")
    /\ fmResult.score \in 0..100
    /\ fmResult.matchType \in {"exact", "fuzzy", "nickname", "partial", "none"}
    /\ fmResult.matchType = "exact" => fmResult.score = 100
    /\ fmResult.matchType = "nickname" => fmResult.score = 95
    /\ fmResult.matchType = "partial" => fmResult.score = 93
    /\ fmResult.matchType = "fuzzy" =>
         /\ fmResult.score = tokenSortRatio(contactFullName, tmdbName)
         /\ fmResult.score >= threshold
    /\ fmResult.matchType = "none" =>
         /\ fmResult.score = tokenSortRatio(contactFullName, tmdbName)
         /\ fmResult.score < threshold

C10_Witness ==
  /\ fmPc = "returned"
  /\ fmResult.matchType = "none"
  /\ fmResult.score > 0
  /\ threshold = DefaultThreshold

\* C11: whenever one of the two names is empty or only white space, both
\* being so included, the result of fuzzyMatch has matchType none and isMatch
\* false.
C11_EmptyInputIsNone ==
  (fmPc = "returned" /\ (trim(contactFullName) = "" \/ trim(tmdbName) = ""))
    => (fmResult.matchType = "none" /\ fmResult.isMatch = FALSE)

\* The reference of C12. LevRow: the distances from the first i characters of
\* a to every prefix of b, from those of the first i-1 characters (prev);
\* insertion, deletion and substitution cost 1 each.
RECURSIVE LevRow(_, _, _, _)
LevRow(ch, b, prev, cur) ==
  LET j == Len(cur)
  IN  IF j > Len(b) THEN cur
      ELSE LET subst == prev[j] + (IF CharAt(b, j) = ch THEN 0 ELSE 1)
               best == Min2(Min2(prev[j + 1] + 1, cur[j] + 1), subst)
               next == Append(cur, best)
           IN  IF Len(next) = j + 1 THEN LevRow(ch, b, prev, next) ELSE next

RECURSIVE LevRows(_, _, _, _)
LevRows(a, b, prev, i) ==
  IF i > Len(a) THEN prev
  ELSE LET row == LevRow(CharAt(a, i), b, prev, <<i>>)
       IN  IF Len(row) = Len(prev) THEN LevRows(a, b, row, i + 1) ELSE row

LevenshteinDistance(a, b) == LevRows(a, b, [j \in 1..(Len(b) + 1) |-> j - 1], 1)[Len(b) + 1]

\* lowercased, trimmed, the tokens sorted and joined by one space
TokenSorted(s) ==
  join(sortStrings(filterNonEmpty(splitOnWhitespace(trim(toLowerCase(s))))), " ")

\* r is 100 * (maxLen - LevenshteinDistance(A, B)) / maxLen brought to the
\* nearest integer (either neighbour when it lies half way)
IsReferenceRatio(r, A, B) ==
  LET maxLen == Max2(Len(A), Len(B))
      exact100 == 100 * (maxLen - LevenshteinDistance(A, B))
      diff == r * maxLen - exact100
  IN  /\ 2 * diff <= maxLen
      /\ 2 * diff >= 0 - maxLen

\* C12: tokenSortRatio of two names is the reference ratio of their
\* token-sorted forms A and B: 100 when A = B (both empty included), 0 when
\* exactly one is empty, else 100 * (maxLen - LevenshteinDistance(A, B)) /
\* maxLen brought to an integer; it is an integer in 0..100. The score of
\* step 2 of fuzzyMatch is that number.
C12_TokenSortRatioIsReference ==
  LET A == TokenSorted(contactFullName)
      B == TokenSorted(tmdbName)
      r == tokenSortRatio(contactFullName, tmdbName)
  IN  /\ r \in 0..100
      /\ A = B => r = 100
      /\ (A # B /\ (A = "" \/ B = "")) => r = 0
      /\ (A # "" /\ B # "") => IsReferenceRatio(r, A, B)
      /\ tokenScore # -1 => tokenScore = r

\* step 2 has scored two names whose sorted forms differ by some edits
C12_Witness ==
  /\ tokenScore \in 1..99
  /\ contactFullName = "Jon Smith"
  /\ tmdbName = "Robert Downey Jr"
  /\ LevenshteinDistance(TokenSorted(contactFullName), TokenSorted(tmdbName)) > 1

\* every ordering of the elements of a sequence
RECURSIVE Orderings(_)
Orderings(seq) ==
  IF Len(seq) <= 1 THEN {seq}
  ELSE UNION { { <<seq[i]>> \o rest :
                 rest \in Orderings(SubSeq(seq, 1, i - 1) \o SubSeq(seq, i + 1, Len(seq))) }
               : i \in 1..Len(seq) }

\* a name rewritten with its tokens in another order, and that again in
\* lower case and within surrounding white space
Rewritings(s) ==
  LET reordered == { join(o, " ") : o \in Orderings(filterNonEmpty(splitOnWhitespace(trim(s)))) }
  IN  reordered \cup { toLowerCase(r) : r \in reordered }
                \cup { "  " \o r \o " " : r \in reordered }

\* C13: tokenSortRatio does not depend on the order of the tokens, on letter
\* case or on surrounding white space: a name scores 100 against each of its
\* rewritings, and a rewriting scores against any other name what the name
\* itself scores.
C13_TokenOrderCaseSpaceInvariant ==
  tokenScore # -1 =>
    \A r \in Rewritings(contactFullName) :
      /\ tokenSortRatio(contactFullName, r) = 100
      /\ tokenSortRatio(r, tmdbName) = tokenScore

\* step 2 has scored a name of two tokens, which has a rewriting in the
\* other order, against a name that is not one of its rewritings
C13_Witness ==
  /\ tokenScore \in 1..99
  /\ contactFullName = "John Smith"
  /\ "Smith John" \in Rewritings(contactFullName)
  /\ tmdbName \notin Rewritings(contactFullName)

\* v is listed under the key k of the alias table
ListsVariant(k, v) ==
  k \in DOMAIN NAME_VARIATIONS
    /\ \E n \in 1..Len(NAME_VARIATIONS[k]) : NAME_VARIATIONS[k][n] = v

\* C16: the alias table a call of fuzzyMatch consults is bidirectional: for
\* every key k and every value v listed under k, v is a key of the table and
\* k is listed under v.
C16_AliasTableBidirectional ==
  fmPc # "idle" =>
    \A k \in DOMAIN NAME_VARIATIONS :
      \A n \in 1..Len(NAME_VARIATIONS[k]) : ListsVariant(NAME_VARIATIONS[k][n], k)

-----------------------------------------------------------------------------
\* Claims about the first-name-variant index and the premiere scan.

\* the handler has built the index
IndexBuilt == pmPc # "idle" /\ Len(pmContacts) > 0

HasBothNames(c) == c.first_name # "" /\ c.last_name # ""

\* a contact of this id is listed under the key
ListedUnder(map, key, id) ==
  key \in DOMAIN map /\ \E n \in 1..Len(map[key]) : map[key][n].id = id

\* C14: after createFirstNameMap(contacts) every contact with a first and a
\* last name is listed under every key of getNameVariations(first_name), its
\* own normalized first name among them, and no key lists two contacts of the
\* same id.
C14_IndexedUnderEveryVariantOnce ==
  IndexBuilt =>
    /\ \A i \in 1..Len(pmContacts) :
         LET c == pmContacts[i]
             variations == getNameVariations(c.first_name)
         IN  HasBothNames(c) =>
               /\ \A j \in 1..Len(variations) : ListedUnder(firstNameMap, variations[j], c.id)
               /\ ListedUnder(firstNameMap, trim(toLowerCase(c.first_name)), c.id)
    /\ \A key \in DOMAIN firstNameMap :
         \A m, n \in 1..Len(firstNameMap[key]) :
           m # n => firstNameMap[key][m].id # firstNameMap[key][n].id

\* the index was built from a list that repeats a contact and holds a contact
\* whose first name the alias table lists as its own variant
C14_Witness ==
  /\ IndexBuilt
  /\ \E i, j \in 1..Len(pmContacts) : i # j /\ pmContacts[i] = pmContacts[j]
                                       /\ HasBothNames(pmContacts[i])
  /\ \E i \in 1..Len(pmContacts) :
       LET variations == getNameVariations(pmContacts[i].first_name)
       IN  /\ HasBothNames(pmContacts[i])
           /\ \E j \in 2..Len(variations) : variations[j] = variations[1]
  /\ "bob" \in DOMAIN firstNameMap

\* the first white-space-delimited token of a credit name, lowercased
FirstToken(name) ==
  LET tokens == filterNonEmpty(splitOnWhitespace(trim(toLowerCase(name))))
  IN  IF Len(tokens) = 0 THEN "" ELSE tokens[1]

\* the variants under which the index lists a contact of this id, among the
\* variants of the first token of the credit name
VariantsListing(name, id) ==
  LET variations == getNameVariations(FirstToken(name))
  IN  {j \in 1..Len(variations) : ListedUnder(firstNameMap, variations[j], id)}

\* the ids of the candidates of a credit name
CandidateIds(name) ==
  {pmContacts[i].id : i \in {j \in 1..Len(pmContacts) : VariantsListing(name, pmContacts[j].id) # {}}}

\* the credits the scan is done with: <<premiere, credit>> positions
CreditsDone ==
  {pc \in UNION {{<<p, c>> : c \in 1..Len(pagePremieres[p].allCredits)} : p \in 1..Len(pagePremieres)} :
     /\ pagePremieres[pc[1]].fetched
     /\ \/ pc[1] < premIdx
        \/ pc[1] = premIdx /\ pmPc \in {"credit", "compare"} /\ pc[2] < creditIdx}

CreditName(pc) == pagePremieres[pc[1]].allCredits[pc[2]].name

ComparisonsOf(pc) ==
  {i \in 1..Len(comparisons) : comparisons[i].premiere = pc[1] /\ comparisons[i].credit = pc[2]}

\* C17: in the premiere scan fuzzyMatch is called on a credit and a contact
\* only if the index lists the contact under a variant of the first token of
\* the credit name; a credit that has a name and no candidate is counted as
\* skipped and causes no call (a credit without a name is passed over before
\* any lookup); and a credit is compared with a contact at most once.
C17_OnlyIndexedCandidatesCompared ==
  /\ \A i \in 1..Len(comparisons) :
       /\ VariantsListing(comparisons[i].tmdbName, comparisons[i].contact.id) # {}
       /\ comparisons[i].tmdbName = trim(CreditName(<<comparisons[i].premiere, comparisons[i].credit>>))
  /\ \A pc \in CreditsDone :
       (trim(CreditName(pc)) # "" /\ CandidateIds(CreditName(pc)) = {}) => ComparisonsOf(pc) = {}
  /\ totalSkipped = Cardinality({pc \in CreditsDone :
                       trim(CreditName(pc)) # "" /\ CandidateIds(CreditName(pc)) = {}})
  /\ totalComparisons = Len(comparisons)
  /\ \A i, j \in 1..Len(comparisons) :
       ( /\ comparisons[i].premiere = comparisons[j].premiere
         /\ comparisons[i].credit = comparisons[j].credit
         /\ comparisons[i].contact.id = comparisons[j].contact.id ) => i = j

\* the scan of a page is over: it skipped a credit without candidates and
\* compared a credit with a contact the index lists under two of its variants
C17_Witness ==
  /\ pmPc = "responded"
  /\ totalSkipped > 0
  /\ \E i \in 1..Len(comparisons) :
       Cardinality(VariantsListing(comparisons[i].tmdbName, comparisons[i].contact.id)) >= 2

\* the tasks that execute: started and not yet settled
Executing == {t \in Tasks : taskState[t] = "running"}

\* C19: whatever number of tasks is passed to run and in whatever order they
\* resolve or reject, the number of tasks executing at a time never exceeds
\* the limit (3 in getCreditsForPage), the running counter is that number,
\* and it never goes below 0.
C19_AtMostLimitRunning ==
  /\ Cardinality(Executing) <= limiterLimit
  /\ running = Cardinality(Executing)
  /\ running >= 0

\* with the limit of getCreditsForPage: three tasks execute, one waits in the
\* queue, and one has failed
C19_Witness ==
  /\ limiterLimit = CreditsLimit
  /\ Cardinality(Executing) = CreditsLimit
  /\ Len(queue) > 0
  /\ \E t \in Tasks : taskState[t] = "rejected"

\* the matches of one page scan for a (premiere, contact) pair
MatchesFor(type, id, contactId) ==
  {i \in 1..Len(pmMatches) :
     /\ pmMatches[i].premiereType = type
     /\ pmMatches[i].premiereId = id
     /\ pmMatches[i].contactId = contactId}

\* C22: one page scan emits at most one match for each (premiere type and
\* id, contact id) pair, however many credits the person has in the
\* premiere; once the credits of movie 10, where 'Bob Downey' is credited,
\* have been compared with the contact Robert Downey, there is exactly one
\* match for that pair, of type nickname with score 95.
C22_OneMatchPerPremiereAndContact ==
  /\ \A i, j \in 1..Len(pmMatches) :
       (/\ pmMatches[i].premiereType = pmMatches[j].premiereType
        /\ pmMatches[i].premiereId = pmMatches[j].premiereId
        /\ pmMatches[i].contactId = pmMatches[j].contactId) => i = j
  /\ \A i \in 1..Len(pmMatches) :
       (pmMatches[i].contactName = "Robert Downey" /\ pmMatches[i].premiereId = 10) =>
         /\ pmMatches[i].matchType = "nickname"
         /\ pmMatches[i].matchScore = 95

\* C23: the news store's isChecking flag is true as long as a news check
\* started by handleCheckNow is in flight, whatever fetchInitialMatches and
\* other handleCheckNow calls do meanwhile.
C23_CheckingWhileInFlight ==
  (\E h \in Handlers : checkPc[h] = "invoke") => isChecking

\* C24: every run of checkForPremieres ends with isProcessing = false,
\* through a guard, a failed page request or normal completion (every request
\* to the edge function settling); the pages it requests are 1, 2, 3, ... in
\* order; it stops exactly at the first response whose nextPage is null or
\* that fails; and the edge function computing nextPage from the totals
\* answers null exactly when page >= max(movieTotalPages, tvTotalPages).
C24_RunEndsPagesInOrder ==
  /\ [](runPc = "finished" => ~isProcessing)
  /\ [](\A i \in 1..Len(requestedPages) : requestedPages[i] = i)
  /\ [][runPc = "awaiting" =>
          /\ runPc' = "finished" <=> (nextPage' = Null \/ premiereError')
          /\ ~premiereError' =>
               (nextPage' = Null <=> currentPage >= Max2(movieTotalPages', tvTotalPages'))
          /\ runPc' = "awaiting" =>
               requestedPages' = Append(requestedPages, currentPage + 1)]_vars
  /\ (runPc = "awaiting" ~> (runPc = "finished" /\ ~isProcessing))

\* a run that requested pages 1, 2 and 3 and completed, the TV list being
\* the longer one
C24_Witness ==
  /\ runPc = "finished"
  /\ requestedPages = <<1, 2, 3>>
  /\ lastChecked
  /\ ~premiereError
  /\ ~isProcessing
  /\ movieTotalPages < tvTotalPages
  /\ tvTotalPages = 3

\* C25: whatever Outlook syncs have run, every contact that was not created
\* by an Outlook sync (a CSV import of either user) is still in the contacts
\* table with the fields and the source it had.
C25_SyncKeepsOtherContacts ==
  \A i \in 1..Len(InitialContacts) :
    InitialContacts[i].source # "outlook" =>
      \E j \in 1..Len(contactsTable) : contactsTable[j] = InitialContacts[i]

Settled(t) == taskState[t] \in {"resolved", "rejected"}

\* C26: every task passed to run is eventually started and settled, resolved
\* or rejected, provided every started task settles; a task that settles,
\* by throwing as well, frees its slot or hands it to the first queued task;
\* and tasks are started, from the queue or at once, in the order they were
\* passed to run.
C26_EveryTaskSettlesInOrder ==
  /\ \A t \in Tasks : (taskState[t] \in {"queued", "running"}) ~> Settled(t)
  /\ [](\A t \in Tasks : Settled(t) => \E i \in 1..Len(started) : started[i] = t)
  /\ [](\A i, j \in 1..Len(started) : i < j => started[i] < started[j])
  /\ [](\A i, j \in 1..Len(queue) : i < j => queue[i] < queue[j])
  /\ [][\A t \in Tasks :
          (taskState[t] = "running" /\ Settled(t)') =>
             IF queue = <<>>
             THEN running' = running - 1 /\ started' = started
             ELSE /\ running' = running
                  /\ taskState'[Head(queue)] = "running"
                  /\ queue' = Tail(queue)
                  /\ started' = Append(started, Head(queue))]_vars

\* with one slot: every task has settled, the first of them by throwing, and
\* all were started in the order of their calls
C26_Witness ==
  /\ limiterLimit = 1
  /\ \A t \in Tasks : Settled(t)
  /\ taskState[1] = "rejected"
  /\ started = [i \in 1..NumTasks |-> i]

\* the contacts fuzzyMatch accepts for a credit name when it is called on
\* every contact that has both names
BruteForceIds(name) ==
  {pmContacts[i].id : i \in {k \in 1..Len(pmContacts) :
     /\ HasBothNames(pmContacts[k])
     /\ fuzzyMatch(pmContacts[k].first_name \o " " \o pmContacts[k].last_name,
                   trim(name), FUZZY_THRESHOLD).isMatch}}

\* the contacts the scan matched with a credit: compared and accepted
PrunedIds(pc) ==
  {comparisons[i].contact.id : i \in {k \in ComparisonsOf(pc) :
     fuzzyMatch(comparisons[k].contactFullName, comparisons[k].tmdbName,
                FUZZY_THRESHOLD).isMatch}}

\* C27: pruning loses no match: for every credit of the page the scan is
\* done with, the contacts matched by the pruned pipeline are the contacts
\* with both names that fuzzyMatch accepts at threshold 90, and each of these
\* is a candidate of the credit.
C27_PruningLosesNoMatch ==
  \A pc \in CreditsDone :
    trim(CreditName(pc)) # "" =>
      /\ PrunedIds(pc) = BruteForceIds(CreditName(pc))
      /\ BruteForceIds(CreditName(pc)) \subseteq CandidateIds(CreditName(pc))

====
